---- MODULE Spec2Model ----
(***************************************************************************)
(* Engine selection of rag-snap: the hardware snapshot, the engine         *)
(* manifests, the CPU and PCI device matchers, the engine scorer           *)
(* (ScoreEngines / checkEngine) and the top engine selector (TopEngine).   *)
(*                                                                         *)
(* Go values are represented as follows.                                   *)
(*   *T (optional field)   <<>> for nil, <<v>> for a set value             *)
(*   []T                   a sequence                                      *)
(*   size string           a sequence of one-character strings             *)
(*   uint64                a natural number below UintModulus              *)
(*   device-level issue    a tuple <<format, arguments...>>                *)
(*   manifest-level issue  a string                                        *)
(***************************************************************************)
EXTENDS Integers, Sequences, FiniteSets, TLC

\* ------------------------------------------------------------------------
\* Bounds of the model
\* ------------------------------------------------------------------------

\* width of the unsigned machine word standing for Go's uint64
UintBits == 29

\* largest number of manifests in one scoring batch
MaxBatch == 2

\* largest number of ScoreEngines calls on the same manifest values
MaxCalls == 2

\* largest length of the short scored lists handed to TopEngine
MaxShort == 3

\* ------------------------------------------------------------------------
\* Generic helpers
\* ------------------------------------------------------------------------

None == <<>>

Some(x) == <<x>>

IsSet(p) == Len(p) > 0

Val(p) == p[1]

Range(s) == {s[i] : i \in 1..Len(s)}

Contains(s, x) == \E i \in 1..Len(s) : s[i] = x

RECURSIVE Pow2(_)
Pow2(n) == IF n = 0 THEN 1 ELSE 2 * Pow2(n - 1)

UintModulus == Pow2(UintBits)

MaxUint == UintModulus - 1

\* unsigned addition with wrap-around
UAdd(a, b) == (a + b) % UintModulus

\* x * 2^k with wrap-around, by repeated doubling
RECURSIVE UShl(_, _)
UShl(x, k) == IF k = 0 THEN x ELSE UShl((2 * x) % UintModulus, k - 1)

\* ------------------------------------------------------------------------
\* utils.StringToBytes
\* ------------------------------------------------------------------------

Digits == <<"0", "1", "2", "3", "4", "5", "6", "7", "8", "9">>

IsDigit(c) == \E d \in 1..10 : Digits[d] = c

DigitVal(c) == (CHOOSE d \in 1..10 : Digits[d] = c) - 1

HasSuffix(s, c) == Len(s) > 0 /\ s[Len(s)] = c

TrimSuffix(s, c) == IF HasSuffix(s, c) THEN SubSeq(s, 1, Len(s) - 1) ELSE s

\* strconv.ParseUint(s, 10, 64): syntax error on an empty string or a
\* non-digit, range error when the value does not fit the word
RECURSIVE ParseUintFrom(_, _, _)
ParseUintFrom(s, i, acc) ==
    IF i > Len(s) THEN [value |-> acc, err |-> "nil"]
    ELSE IF ~IsDigit(s[i]) THEN [value |-> 0, err |-> "invalid syntax"]
    ELSE IF acc > (MaxUint - DigitVal(s[i])) \div 10
         THEN [value |-> MaxUint, err |-> "value out of range"]
    ELSE ParseUintFrom(s, i + 1, acc * 10 + DigitVal(s[i]))

ParseUint(s) ==
    IF Len(s) = 0 THEN [value |-> 0, err |-> "invalid syntax"]
    ELSE ParseUintFrom(s, 1, 0)

StringToBytes(sizeString) ==
    LET shift  == IF HasSuffix(sizeString, "G") THEN 30
                  ELSE IF HasSuffix(sizeString, "M") THEN 20
                  ELSE 0
        digits == IF HasSuffix(sizeString, "G") THEN TrimSuffix(sizeString, "G")
                  ELSE IF HasSuffix(sizeString, "M") THEN TrimSuffix(sizeString, "M")
                  ELSE sizeString
        parsed == ParseUint(digits)
    IN  IF parsed.err # "nil" THEN [value |-> 0, err |-> parsed.err]
        ELSE [value |-> UShl(parsed.value, shift), err |-> "nil"]

\* ------------------------------------------------------------------------
\* weights
\* ------------------------------------------------------------------------

PciDeviceType == 10

\* the weight of the device type in the place of the weight of a discrete device
PciDeviceExternal_asType == PciDeviceType

PciDeviceExternal == 50

GpuVRam == 10

CpuDevice == 10

CpuModel == 8

CpuVendor == 6

CpuFlag == 1

\* ------------------------------------------------------------------------
\* constants
\* ------------------------------------------------------------------------

Amd64 == "amd64"

Arm64 == "arm64"

SnapStoragePath == "/var/lib/snapd/snaps"

\* ------------------------------------------------------------------------
\* cpu.CheckCpu and cpu.Match
\* ------------------------------------------------------------------------

\* the amd64 flag loop / arm64 feature loop: one point per required entry
\* the host has, one issue per required entry it lacks
\* the loop as it would be if it stopped at the first missing entry
RECURSIVE checkList_firstMissing(_, _, _, _, _)
checkList_firstMissing(required, present, fmt, i, acc) ==
    IF i > Len(required) THEN acc
    ELSE IF Contains(present, required[i])
         THEN checkList_firstMissing(required, present, fmt, i + 1,
                                     [acc EXCEPT !.cpuScore = @ + CpuFlag])
         ELSE [acc EXCEPT !.issues = Append(@, <<fmt, required[i]>>)]

RECURSIVE checkList(_, _, _, _, _)
checkList(required, present, fmt, i, acc) ==
    IF i > Len(required) THEN acc
    ELSE IF Contains(present, required[i])
         THEN checkList(required, present, fmt, i + 1,
                        [acc EXCEPT !.cpuScore = @ + CpuFlag])
         ELSE checkList(required, present, fmt, i + 1,
                        [acc EXCEPT !.issues = Append(@, <<fmt, required[i]>>)])

CheckCpu(manifestDevice, hostCpu) ==
    LET s0 == [cpuScore |-> CpuDevice, issues |-> <<>>]
        s1 == IF IsSet(manifestDevice.Architecture)
                 /\ Val(manifestDevice.Architecture) # hostCpu.Architecture
              THEN [s0 EXCEPT !.issues =
                       Append(@, <<"architecture not %s", Val(manifestDevice.Architecture)>>)]
              ELSE s0
        \* amd64
        s2 == IF hostCpu.Architecture = Amd64 /\ IsSet(manifestDevice.ManufacturerId)
              THEN IF Val(manifestDevice.ManufacturerId) = hostCpu.ManufacturerId
                   THEN [s1 EXCEPT !.cpuScore = @ + CpuVendor]
                   ELSE [s1 EXCEPT !.issues =
                            Append(@, <<"manufacturer id mismatch: %s", hostCpu.ManufacturerId>>)]
              ELSE s1
        s3 == IF hostCpu.Architecture = Amd64
              THEN checkList(manifestDevice.Flags, hostCpu.Flags, "flag %s missing", 1, s2)
              ELSE s2
        \* arm64
        s4 == IF hostCpu.Architecture = Arm64 /\ IsSet(manifestDevice.ImplementerId)
              THEN IF Val(manifestDevice.ImplementerId) = hostCpu.ImplementerId
                   THEN [s3 EXCEPT !.cpuScore = @ + CpuVendor]
                   ELSE [s3 EXCEPT !.issues =
                            Append(@, <<"implementer id mismatch: %x", hostCpu.ImplementerId>>)]
              ELSE s3
        s5 == IF hostCpu.Architecture = Arm64 /\ IsSet(manifestDevice.PartNumber)
              THEN IF Val(manifestDevice.PartNumber) = hostCpu.PartNumber
                   THEN [s4 EXCEPT !.cpuScore = @ + CpuModel]
                   ELSE [s4 EXCEPT !.issues =
                            Append(@, <<"part number mismatch: %x", hostCpu.PartNumber>>)]
              ELSE s4
        s6 == IF hostCpu.Architecture = Arm64
              THEN checkList(manifestDevice.Features, hostCpu.Features, "feature not found: %s", 1, s5)
              ELSE s5
    IN  IF Len(s6.issues) > 0 THEN [s6 EXCEPT !.cpuScore = 0] ELSE s6

\* prefix of the issues of host cpu number i (0-based) when there are several
RECURSIVE prefixCpu(_, _, _)
prefixCpu(cpuIssues, i, k) ==
    IF k > Len(cpuIssues) THEN <<>>
    ELSE <<(<<"cpu %d: %v", i, cpuIssues[k]>>)>> \o prefixCpu(cpuIssues, i, k + 1)

RECURSIVE cpuMatchLoop(_, _, _, _)
cpuMatchLoop(manifestDevice, cpus, i, acc) ==
    IF i > Len(cpus) THEN acc
    ELSE LET body(r) ==
                 IF Len(r.issues) > 0
                 THEN cpuMatchLoop(manifestDevice, cpus, i + 1,
                          [acc EXCEPT !.issues =
                              @ \o (IF Len(cpus) > 1 THEN prefixCpu(r.issues, i - 1, 1)
                                    ELSE r.issues)])
                 ELSE cpuMatchLoop(manifestDevice, cpus, i + 1,
                          [acc EXCEPT !.score =
                              IF r.cpuScore > @ THEN r.cpuScore ELSE @])
         IN  body(CheckCpu(manifestDevice, cpus[i]))

\* hostCpus is None for a nil slice and Some(list) otherwise
cpu_Match(manifestDevice, hostCpus) ==
    LET init == [score |-> 0,
                 issues |-> IF ~IsSet(hostCpus)
                            THEN <<(<<"no cpu found on host system">>)>>
                            ELSE <<>>]
        cpus == IF IsSet(hostCpus) THEN Val(hostCpus) ELSE <<>>
    IN  cpuMatchLoop(manifestDevice, cpus, 1, init)

\* ------------------------------------------------------------------------
\* pci.Match and its helpers
\* ------------------------------------------------------------------------

hasAdditionalProperties(device) ==
    IsSet(device.VRam) \/ IsSet(device.ComputeCapability)

checkVram(device, pciDevice) ==
    LET vramRequired == StringToBytes(Val(device.VRam))
    IN  IF vramRequired.err # "nil" THEN <<vramRequired.err>>
        ELSE IF "vram" \in DOMAIN pciDevice.AdditionalProperties
        THEN LET vramAvailable == StringToBytes(pciDevice.AdditionalProperties["vram"])
             IN  IF vramAvailable.err # "nil"
                 THEN <<"error parsing vRAM: %v", vramAvailable.err>>
                 ELSE IF vramAvailable.value >= vramRequired.value
                 THEN <<>>
                 ELSE <<"not enough vRAM: %d", vramAvailable.value>>
        ELSE <<"unable to detect vRAM">>

\* err is the empty tuple for a nil error
checkProperties(device, pciDevice) ==
    IF IsSet(device.VRam)
    THEN LET err == checkVram(device, pciDevice)
         IN  IF err # <<>> THEN [extraScore |-> 0, err |-> err]
             ELSE [extraScore |-> GpuVRam, err |-> <<>>]
    ELSE [extraScore |-> 0, err |-> <<>>]

\* checkType without the legacy VGA class and without the co-processor class
checkType_rangesOnly(requiredType, pciDevice) ==
    \/ /\ requiredType = "gpu"
       /\ pciDevice.DeviceClass \div 256 = 3
    \/ /\ requiredType \in {"npu", "tpu"}
       /\ pciDevice.DeviceClass \div 256 = 18

checkType(requiredType, pciDevice) ==
    \/ /\ requiredType = "gpu"
       /\ \/ pciDevice.DeviceClass = 1
          \/ pciDevice.DeviceClass \div 256 = 3
    \/ /\ requiredType \in {"npu", "tpu"}
       /\ \/ pciDevice.DeviceClass \div 256 = 18
          \/ pciDevice.DeviceClass = 2880

\* snapctl.IsConnected(connection).Run(): the environment answers
\* "connected", "disconnected" or "error" for every plug
checkSnapConnection(snapctlState, connection) == snapctlState[connection]

\* the loop over the snap connections stopped after the first connection
checkDrivers_firstOnly(snapctlState, connections, i, deviceScore) ==
    IF Len(connections) = 0 \/ snapctlState[connections[1]] = "connected"
    THEN [deviceScore |-> deviceScore, issues |-> <<>>]
    ELSE IF snapctlState[connections[1]] = "error"
    THEN [deviceScore |-> 0,
          issues |-> <<(<<"error checking snap connection %q: %v", connections[1], "snapctl">>)>>]
    ELSE [deviceScore |-> 0, issues |-> <<(<<"%q is not connected", connections[1]>>)>>]

RECURSIVE checkDrivers(_, _, _, _)
checkDrivers(snapctlState, connections, i, deviceScore) ==
    IF i > Len(connections) THEN [deviceScore |-> deviceScore, issues |-> <<>>]
    ELSE LET c == checkSnapConnection(snapctlState, connections[i])
         IN  IF c = "error"
             THEN [deviceScore |-> 0,
                   issues |-> <<(<<"error checking snap connection %q: %v", connections[i], "snapctl">>)>>]
             ELSE IF c # "connected"
             THEN [deviceScore |-> 0,
                   issues |-> <<(<<"%q is not connected", connections[i]>>)>>]
             ELSE checkDrivers(snapctlState, connections, i + 1, deviceScore)

scorePciDevice(manifestDevice, hostPciDevice, snapctlState) ==
    LET typed    == manifestDevice.Type # ""
        match    == checkType(manifestDevice.Type, hostPciDevice)
        s1       == IF typed /\ match THEN PciDeviceType ELSE 0
        s2       == IF hostPciDevice.BusNumber > 0 THEN s1 + PciDeviceExternal ELSE s1
        rest(props) ==
            IF hasAdditionalProperties(manifestDevice) /\ props.err # <<>>
            THEN [deviceScore |-> 0, issues |-> <<props.err>>]
            ELSE checkDrivers(snapctlState, manifestDevice.SnapConnections, 1,
                              IF hasAdditionalProperties(manifestDevice)
                              THEN s2 + props.extraScore ELSE s2)
    IN  IF typed /\ ~match
        THEN [deviceScore |-> 0,
              issues |-> <<(<<"device class 0x%04x not of required type %s",
                              hostPciDevice.DeviceClass, manifestDevice.Type>>)>>]
        ELSE rest(checkProperties(manifestDevice, hostPciDevice))

filterPciDevices(pciDevices, vendorId, deviceId) ==
    LET include(pciDevice) ==
            IF IsSet(vendorId)
            THEN IF Val(vendorId) # pciDevice.VendorId THEN FALSE
                 ELSE ~(IsSet(deviceId) /\ Val(deviceId) # pciDevice.DeviceId)
            ELSE TRUE
    IN  SelectSeq(pciDevices, include)

RECURSIVE prefixPci(_, _, _)
prefixPci(deviceIssues, slot, k) ==
    IF k > Len(deviceIssues) THEN <<>>
    ELSE <<(<<"pci %s: %s", slot, deviceIssues[k]>>)>> \o prefixPci(deviceIssues, slot, k + 1)

RECURSIVE scorePciLoop(_, _, _, _)
scorePciLoop(manifestDevice, snapctlState, i, acc) ==
    IF i > Len(acc.devices) THEN acc
    ELSE LET body(r) ==
                 scorePciLoop(manifestDevice, snapctlState, i + 1,
                     [devices |-> [acc.devices EXCEPT ![i].Score = r.deviceScore],
                      issues  |-> acc.issues \o prefixPci(r.issues, acc.devices[i].Slot, 1)])
         IN  body(scorePciDevice(manifestDevice, acc.devices[i], snapctlState))

\* returns the list it was given with every Score overwritten, and the issues
scorePciDevices(manifestDevice, hostPciDevices, snapctlState) ==
    scorePciLoop(manifestDevice, snapctlState, 1,
        [devices |-> hostPciDevices,
         issues  |-> IF Len(hostPciDevices) = 0
                     THEN <<(<<"device not found">>)>> ELSE <<>>])

RECURSIVE maxScore(_, _, _)
maxScore(devices, i, best) ==
    IF i > Len(devices) THEN best
    ELSE maxScore(devices, i + 1,
                  IF devices[i].Score > best THEN devices[i].Score ELSE best)

\* pci.Match as it would be if the scores were written to the caller's list
\* instead of a filtered copy
pci_Match_inPlace(manifestDevice, hostPciDevices, snapctlState) ==
    IF Len(hostPciDevices) = 0
    THEN [score |-> 0, issues |-> <<(<<"no pci devices on host system">>)>>,
          hostPciDevices |-> hostPciDevices]
    ELSE LET result(scored, maxDeviceScore) ==
                 [score |-> maxDeviceScore,
                  issues |-> IF maxDeviceScore = 0 THEN scored.issues ELSE <<>>,
                  hostPciDevices |-> scored.devices]
             scoredOf(scored) == result(scored, maxScore(scored.devices, 1, 0))
         IN  scoredOf(scorePciDevices(manifestDevice, hostPciDevices, snapctlState))

\* hostPciDevices of the result is the caller's list as the call leaves it:
\* filterPciDevices builds a fresh list, so the scores written by
\* scorePciDevices never reach the caller's devices
pci_Match(manifestDevice, hostPciDevices, snapctlState) ==
    IF Len(hostPciDevices) = 0
    THEN [score |-> 0, issues |-> <<(<<"no pci devices on host system">>)>>,
          hostPciDevices |-> hostPciDevices]
    ELSE LET availableDevices == filterPciDevices(hostPciDevices,
                                     manifestDevice.VendorId, manifestDevice.DeviceId)
             result(scored, maxDeviceScore) ==
                 [score |-> maxDeviceScore,
                  issues |-> IF maxDeviceScore = 0 THEN scored.issues ELSE <<>>,
                  hostPciDevices |-> hostPciDevices]
             scoredOf(scored) == result(scored, maxScore(scored.devices, 1, 0))
         IN  scoredOf(scorePciDevices(manifestDevice, availableDevices, snapctlState))

\* ------------------------------------------------------------------------
\* selector: checkDevicesAll, checkDevicesAny, checkEngine, ScoreEngines
\* ------------------------------------------------------------------------

\* The device slices of a manifest share their backing array with the
\* caller's manifest, so an assignment to devices[i] is visible to the caller:
\* the loops return the devices (and the snapshot) as the call leaves them.

addIssues(device, deviceIssues) ==
    [device EXCEPT !.CompatibilityIssues = @ \o deviceIssues]

\* checkDevicesAll's loop with a usb requirement passed over in silence
RECURSIVE checkAllLoop_usbSkipped(_, _, _)
checkAllLoop_usbSkipped(snapctlState, i, acc) ==
    IF i > Len(acc.devices) THEN acc
    ELSE LET d == acc.devices[i]
             cpuCase(m) ==
                 IF Len(m.issues) > 0
                 THEN checkAllLoop_usbSkipped(snapctlState, i + 1,
                          [acc EXCEPT !.compatible = FALSE,
                                      !.devices[i] = addIssues(d, m.issues),
                                      !.issues = Append(@, "required cpu device not found")])
                 ELSE checkAllLoop_usbSkipped(snapctlState, i + 1,
                          [acc EXCEPT !.extraScore = @ + m.score])
             pciCase(m) ==
                 IF Len(m.issues) > 0
                 THEN checkAllLoop_usbSkipped(snapctlState, i + 1,
                          [acc EXCEPT !.compatible = FALSE,
                                      !.hardwareInfo.PciDevices = m.hostPciDevices,
                                      !.devices[i] = addIssues(d, m.issues),
                                      !.issues = Append(@, "required pci device not found")])
                 ELSE checkAllLoop_usbSkipped(snapctlState, i + 1,
                          [acc EXCEPT !.extraScore = @ + m.score,
                                      !.hardwareInfo.PciDevices = m.hostPciDevices])
         IN  IF d.Type = "cpu"
             THEN cpuCase(cpu_Match(d, acc.hardwareInfo.Cpus))
             ELSE IF d.Bus = "usb"
             THEN checkAllLoop_usbSkipped(snapctlState, i + 1, acc)
             ELSE IF d.Bus = "" \/ d.Bus = "pci"
             THEN pciCase(pci_Match(d, acc.hardwareInfo.PciDevices, snapctlState))
             ELSE checkAllLoop_usbSkipped(snapctlState, i + 1, acc)

RECURSIVE checkAllLoop(_, _, _)
checkAllLoop(snapctlState, i, acc) ==
    IF i > Len(acc.devices) THEN acc
    ELSE LET d == acc.devices[i]
             cpuCase(m) ==
                 IF Len(m.issues) > 0
                 THEN checkAllLoop(snapctlState, i + 1,
                          [acc EXCEPT !.compatible = FALSE,
                                      !.devices[i] = addIssues(d, m.issues),
                                      !.issues = Append(@, "required cpu device not found")])
                 ELSE checkAllLoop(snapctlState, i + 1,
                          [acc EXCEPT !.extraScore = @ + m.score])
             pciCase(m) ==
                 IF Len(m.issues) > 0
                 THEN checkAllLoop(snapctlState, i + 1,
                          [acc EXCEPT !.compatible = FALSE,
                                      !.hardwareInfo.PciDevices = m.hostPciDevices,
                                      !.devices[i] = addIssues(d, m.issues),
                                      !.issues = Append(@, "required pci device not found")])
                 ELSE checkAllLoop(snapctlState, i + 1,
                          [acc EXCEPT !.extraScore = @ + m.score,
                                      !.hardwareInfo.PciDevices = m.hostPciDevices])
         IN  IF d.Type = "cpu"
             THEN cpuCase(cpu_Match(d, acc.hardwareInfo.Cpus))
             ELSE IF d.Bus = "usb"
             THEN checkAllLoop(snapctlState, i + 1,
                      [acc EXCEPT !.compatible = FALSE,
                                  !.devices[i] = addIssues(d,
                                      <<(<<"usb device matching not implemented">>)>>),
                                  !.issues = Append(@, "usb device matching not implemented")])
             ELSE IF d.Bus = "" \/ d.Bus = "pci"
             THEN pciCase(pci_Match(d, acc.hardwareInfo.PciDevices, snapctlState))
             ELSE checkAllLoop(snapctlState, i + 1, acc)

checkDevicesAll(hardwareInfo, devices, snapctlState) ==
    LET result(r) ==
            [extraScore   |-> IF r.compatible THEN r.extraScore ELSE 0,
             issues       |-> r.issues,
             devices      |-> r.devices,
             hardwareInfo |-> r.hardwareInfo]
    IN  result(checkAllLoop(snapctlState, 1,
                   [extraScore |-> 0, issues |-> <<>>, compatible |-> TRUE,
                    devices |-> devices, hardwareInfo |-> hardwareInfo]))

RECURSIVE checkAnyLoop(_, _, _)
checkAnyLoop(snapctlState, i, acc) ==
    IF i > Len(acc.devices) THEN acc
    ELSE LET device == acc.devices[i]
             cpuCase(m) ==
                 IF Len(m.issues) > 0
                 THEN checkAnyLoop(snapctlState, i + 1,
                          [acc EXCEPT !.devices[i] = addIssues(device, m.issues)])
                 ELSE checkAnyLoop(snapctlState, i + 1,
                          [acc EXCEPT !.devicesFound = @ + 1,
                                      !.extraScore = @ + m.score])
             pciCase(m) ==
                 IF Len(m.issues) > 0
                 THEN checkAnyLoop(snapctlState, i + 1,
                          [acc EXCEPT !.hardwareInfo.PciDevices = m.hostPciDevices,
                                      !.devices[i] = addIssues(device, m.issues)])
                 ELSE checkAnyLoop(snapctlState, i + 1,
                          [acc EXCEPT !.devicesFound = @ + 1,
                                      !.extraScore = @ + m.score,
                                      !.hardwareInfo.PciDevices = m.hostPciDevices])
         IN  IF device.Type = "cpu"
             THEN cpuCase(cpu_Match(device, acc.hardwareInfo.Cpus))
             ELSE IF device.Bus = "usb"
             \* the issue is appended to the loop's copy of the device only
             THEN checkAnyLoop(snapctlState, i + 1,
                      [acc EXCEPT !.compatible = FALSE,
                                  !.issues = Append(@, "usb device matching not implemented")])
             ELSE IF device.Bus = "" \/ device.Bus = "pci"
             THEN pciCase(pci_Match(device, acc.hardwareInfo.PciDevices, snapctlState))
             ELSE checkAnyLoop(snapctlState, i + 1, acc)

checkDevicesAny(hardwareInfo, devices, snapctlState) ==
    LET notFound(r) == Len(devices) > 0 /\ r.devicesFound = 0
        result(r) ==
            [extraScore   |-> IF r.compatible /\ ~notFound(r) THEN r.extraScore ELSE 0,
             issues       |-> IF notFound(r) THEN Append(r.issues, "required device not found")
                              ELSE r.issues,
             devices      |-> r.devices,
             hardwareInfo |-> r.hardwareInfo]
    IN  result(checkAnyLoop(snapctlState, 1,
                   [extraScore |-> 0, issues |-> <<>>, compatible |-> TRUE,
                    devicesFound |-> 0,
                    devices |-> devices, hardwareInfo |-> hardwareInfo]))

\* the memory check as it would be if an unreported TotalRam counted as
\* too little memory
memoryCheck_conflate(hardwareInfo, manifest) ==
    IF ~IsSet(manifest.Memory) THEN "skip"
    ELSE LET requiredMemory == StringToBytes(Val(manifest.Memory))
         IN  IF requiredMemory.err # "nil" THEN "error"
             ELSE IF UAdd(hardwareInfo.Memory.TotalRam, hardwareInfo.Memory.TotalSwap)
                        < requiredMemory.value
             THEN "fail"
             ELSE "pass"

\* the memory part of checkEngine: "skip", "error", "fail" or "pass"
memoryCheck(hardwareInfo, manifest) ==
    IF ~IsSet(manifest.Memory) THEN "skip"
    ELSE LET requiredMemory == StringToBytes(Val(manifest.Memory))
         IN  IF requiredMemory.err # "nil" THEN "error"
             ELSE IF hardwareInfo.Memory.TotalRam = 0 THEN "error"
             ELSE IF UAdd(hardwareInfo.Memory.TotalRam, hardwareInfo.Memory.TotalSwap)
                        < requiredMemory.value
             THEN "fail"
             ELSE "pass"

\* the disk part of checkEngine
diskCheck(hardwareInfo, manifest) ==
    IF ~IsSet(manifest.DiskSpace) THEN "skip"
    ELSE LET requiredDisk == StringToBytes(Val(manifest.DiskSpace))
         IN  IF requiredDisk.err # "nil" THEN "error"
             ELSE IF SnapStoragePath \notin DOMAIN hardwareInfo.Disk THEN "error"
             ELSE IF hardwareInfo.Disk[SnapStoragePath].Avail < requiredDisk.value
             THEN "fail"
             ELSE "pass"

checkEngine(hardwareInfo, manifest, snapctlState) ==
    LET memErr == IF StringToBytes(Val(manifest.Memory)).err # "nil"
                  THEN "failed to parse required memory"
                  ELSE "total memory not reported by host system"
        diskErr == IF StringToBytes(Val(manifest.DiskSpace)).err # "nil"
                   THEN "failed to parse required disk space"
                   ELSE "disk space not reported by host system"
        failed(e) == [score |-> 0, reasons |-> <<>>, err |-> e,
                      manifest |-> manifest, hardwareInfo |-> hardwareInfo]
        allOf(hw) ==
            IF Len(manifest.Devices.Allof) > 0
            THEN checkDevicesAll(hw, manifest.Devices.Allof, snapctlState)
            ELSE [extraScore |-> 0, issues |-> <<>>,
                  devices |-> manifest.Devices.Allof, hardwareInfo |-> hw]
        anyOf(hw) ==
            IF Len(manifest.Devices.Anyof) > 0
            THEN checkDevicesAny(hw, manifest.Devices.Anyof, snapctlState)
            ELSE [extraScore |-> 0, issues |-> <<>>,
                  devices |-> manifest.Devices.Anyof, hardwareInfo |-> hw]
        result(mem, disk, all, any) ==
            LET compatible == /\ mem # "fail"
                              /\ disk # "fail"
                              /\ Len(all.issues) = 0
                              /\ Len(any.issues) = 0
                engineScore == (IF mem = "pass" THEN 1 ELSE 0)
                               + (IF disk = "pass" THEN 1 ELSE 0)
                               + (IF Len(all.issues) = 0 THEN all.extraScore ELSE 0)
                               + (IF Len(any.issues) = 0 THEN any.extraScore ELSE 0)
                reasons == (IF mem = "fail" THEN <<"host system memory too small">> ELSE <<>>)
                           \o (IF disk = "fail" THEN <<"host system disk space too small">> ELSE <<>>)
                           \o all.issues \o any.issues
            IN  [score        |-> IF compatible THEN engineScore ELSE 0,
                 reasons      |-> reasons,
                 err          |-> "nil",
                 manifest     |-> [manifest EXCEPT !.Devices.Allof = all.devices,
                                                   !.Devices.Anyof = any.devices],
                 hardwareInfo |-> any.hardwareInfo]
        devices(mem, disk, all) == result(mem, disk, all, anyOf(all.hardwareInfo))
        checks(mem, disk) ==
            IF mem = "error" THEN failed(memErr)
            ELSE IF disk = "error" THEN failed(diskErr)
            ELSE devices(mem, disk, allOf(hardwareInfo))
    IN  checks(memoryCheck(hardwareInfo, manifest), diskCheck(hardwareInfo, manifest))

\* the iteration as it would be without the reset of Compatible
newScoredEngine_alwaysCompatible(scoredEngines, currentManifest, score, reasons) ==
    [Manifest            |-> currentManifest,
     Score               |-> score,
     Compatible          |-> TRUE,
     CompatibilityIssues |-> <<>> \o reasons]

\* the iteration as it would be if scoredEngine were one variable shared by
\* all iterations: the issues of the earlier manifests stay in the list
newScoredEngine_shared(scoredEngines, currentManifest, score, reasons) ==
    [Manifest            |-> currentManifest,
     Score               |-> score,
     Compatible          |-> IF score = 0 THEN FALSE ELSE TRUE,
     CompatibilityIssues |->
         (IF Len(scoredEngines) = 0 THEN <<>>
          ELSE scoredEngines[Len(scoredEngines)].CompatibilityIssues) \o reasons]

\* the ScoredManifest one iteration of ScoreEngines builds; scoredEngines is
\* the result list so far, which the fresh scoredEngine does not depend on
newScoredEngine(scoredEngines, currentManifest, score, reasons) ==
    [Manifest            |-> currentManifest,
     Score               |-> score,
     Compatible          |-> IF score = 0 THEN FALSE ELSE TRUE,
     CompatibilityIssues |-> <<>> \o reasons]

RECURSIVE scoreLoop(_, _, _)
scoreLoop(snapctlState, i, acc) ==
    IF i > Len(acc.manifests) \/ acc.err # "nil" THEN acc
    ELSE LET body(r) ==
                 IF r.err # "nil"
                 THEN [acc EXCEPT !.scoredEngines = <<>>, !.err = r.err]
                 ELSE scoreLoop(snapctlState, i + 1,
                          [scoredEngines |-> Append(acc.scoredEngines,
                                                 newScoredEngine(acc.scoredEngines,
                                                     r.manifest, r.score, r.reasons)),
                           err           |-> "nil",
                           manifests     |-> [acc.manifests EXCEPT ![i] = r.manifest],
                           hardwareInfo  |-> r.hardwareInfo])
         IN  body(checkEngine(acc.hardwareInfo, acc.manifests[i], snapctlState))

\* the result, with the caller's manifests and snapshot as the call leaves them
ScoreEngines(hardwareInfo, manifests, snapctlState) ==
    scoreLoop(snapctlState, 1,
        [scoredEngines |-> <<>>, err |-> "nil",
         manifests |-> manifests, hardwareInfo |-> hardwareInfo])

\* ------------------------------------------------------------------------
\* sort.Slice as TopEngine calls it: less(i, j) is Score[i] > Score[j].
\* Positions are Go's 0-based indices; a range is [a, b).
\* ------------------------------------------------------------------------

maxInsertion == 12

At(data, i) == data[i + 1]

Less(data, i, j) == At(data, i).Score > At(data, j).Score

Swap(data, i, j) == [data EXCEPT ![i + 1] = data[j + 1], ![j + 1] = data[i + 1]]

RECURSIVE insertionInner(_, _, _)
insertionInner(data, a, j) ==
    IF j > a /\ Less(data, j, j - 1)
    THEN insertionInner(Swap(data, j, j - 1), a, j - 1)
    ELSE data

RECURSIVE insertionOuter(_, _, _, _)
insertionOuter(data, a, b, i) ==
    IF i >= b THEN data
    ELSE insertionOuter(insertionInner(data, a, i), a, b, i + 1)

insertionSort_func(data, a, b) == insertionOuter(data, a, b, a + 1)

\* order2_func: the two positions in order, and whether they were exchanged
order2_func(data, a, b) ==
    IF Less(data, b, a) THEN [lo |-> b, hi |-> a, swaps |-> 1]
    ELSE [lo |-> a, hi |-> b, swaps |-> 0]

median_func(data, a, b, c) ==
    LET o1 == order2_func(data, a, b)
        o2 == order2_func(data, o1.hi, c)
        o3 == order2_func(data, o1.lo, o2.lo)
    IN  [pivot |-> o3.hi, swaps |-> o1.swaps + o2.swaps + o3.swaps]

\* choosePivot_func for a range of 8 to 49 elements: the median of the
\* elements at the three quarter positions; no exchange means "increasing"
choosePivot_func(data, a, b) ==
    LET l == b - a
        m == median_func(data, a + (l \div 4), a + (l \div 4) * 2, a + (l \div 4) * 3)
    IN  [pivot |-> m.pivot, increasing |-> m.swaps = 0]

\* partialInsertionSort_func on fewer than 50 elements changes nothing and
\* reports whether the range is already sorted
partialInsertionSort_func(data, a, b) ==
    \A i \in (a + 1)..(b - 1) : ~Less(data, i, i - 1)

RECURSIVE scanUp(_, _, _, _)
scanUp(data, a, i, j) ==
    IF i <= j /\ Less(data, i, a) THEN scanUp(data, a, i + 1, j) ELSE i

RECURSIVE scanDown(_, _, _, _)
scanDown(data, a, i, j) ==
    IF i <= j /\ ~Less(data, j, a) THEN scanDown(data, a, i, j - 1) ELSE j

RECURSIVE partitionLoop(_, _, _, _)
partitionLoop(data, a, i, j) ==
    LET i2 == scanUp(data, a, i, j)
        j2 == scanDown(data, a, i2, j)
    IN  IF i2 > j2 THEN [data |-> data, j |-> j2]
        ELSE partitionLoop(Swap(data, i2, j2), a, i2 + 1, j2 - 1)

partition_func(data, a, b, pivot) ==
    LET d1 == Swap(data, a, pivot)
        i1 == scanUp(d1, a, a + 1, b - 1)
        j1 == scanDown(d1, a, i1, b - 1)
    IN  IF i1 > j1
        THEN [data |-> Swap(d1, j1, a), mid |-> j1]
        ELSE LET r == partitionLoop(Swap(d1, i1, j1), a, i1 + 1, j1 - 1)
             IN  [data |-> Swap(r.data, r.j, a), mid |-> r.j]

\* pdqsort_func on at most maxInsertion + 1 elements: both sides of the first
\* partition have at most maxInsertion elements and are insertion-sorted
pdqsort_func(data, a, b) ==
    IF b - a <= maxInsertion THEN insertionSort_func(data, a, b)
    ELSE LET p == choosePivot_func(data, a, b)
         IN  IF p.increasing /\ partialInsertionSort_func(data, a, b) THEN data
             ELSE LET q == partition_func(data, a, b, p.pivot)
                  IN  insertionSort_func(
                          insertionSort_func(q.data, a, q.mid), q.mid + 1, b)

sortSlice(data) == pdqsort_func(data, 0, Len(data))

\* ------------------------------------------------------------------------
\* selector.TopEngine
\* ------------------------------------------------------------------------

ErrorNoCompatibleEngine == "no compatible engines found"

\* the filter of TopEngine as it would be without the grade test
isCompatibleStable_anyGrade(engine) == engine.Score > 0

\* the filter of TopEngine with Score >= 0 in the place of Score > 0
isCompatibleStable_zeroScore(engine) == engine.Score >= 0 /\ engine.Manifest.Grade = "stable"

isCompatibleStable(engine) == engine.Score > 0 /\ engine.Manifest.Grade = "stable"

\* TopEngine as it would be without the test for an empty filtered list
TopEngine_noSentinel(scoredEngines) ==
    LET compatibleEngines == SelectSeq(scoredEngines, isCompatibleStable)
    IN  IF Len(compatibleEngines) = 0
        THEN [engine |-> None, err |-> "nil"]
        ELSE [engine |-> Some(sortSlice(compatibleEngines)[1]), err |-> "nil"]

\* engine is None for a nil pointer
TopEngine(scoredEngines) ==
    LET compatibleEngines == SelectSeq(scoredEngines, isCompatibleStable)
    IN  IF Len(compatibleEngines) = 0
        THEN [engine |-> None, err |-> ErrorNoCompatibleEngine]
        ELSE [engine |-> Some(sortSlice(compatibleEngines)[1]), err |-> "nil"]

\* ------------------------------------------------------------------------
\* engines: Device.validate, Manifest.validate, Validate, LoadManifest and
\* LoadManifests. An error is a tuple <<format, arguments>>, NoError is nil.
\* ------------------------------------------------------------------------

NoError == <<>>

\* if err != nil { return fmt.Errorf(fmt, err) }
wrapError(fmt, err) == IF err # NoError THEN <<fmt, err>> ELSE NoError

\* the fields of Device in the order of the struct
DeviceFields ==
    <<"Type", "Bus", "Architecture", "ManufacturerId", "Flags", "ImplementerId",
      "PartNumber", "Features", "VendorId", "DeviceId", "VRam",
      "ComputeCapability", "SnapConnections", "CompatibilityIssues">>

\* reflect.Value.IsZero: "" for a string, nil for a pointer or a slice
IsZero(device, fieldName) ==
    IF fieldName \in {"Type", "Bus"} THEN device[fieldName] = ""
    ELSE device[fieldName] = <<>>

\* the loop over the fields of the struct: the first field that has a value
\* and is not in the allow list is the error
RECURSIVE checkFields(_, _, _, _)
checkFields(device, validFields, fmt, i) ==
    IF i > Len(DeviceFields) THEN NoError
    ELSE IF ~IsZero(device, DeviceFields[i]) /\ ~Contains(validFields, DeviceFields[i])
         THEN <<fmt, DeviceFields[i]>>
         ELSE checkFields(device, validFields, fmt, i + 1)

\* validatePci without the append of extraFields to validFields
validatePci_noExtra(device, extraFields) ==
    checkFields(device, <<"Type", "Bus", "VendorId", "DeviceId", "SnapConnections">>,
                "pci device: invalid field: %s", 1)

validatePci(device, extraFields) ==
    checkFields(device,
                <<"Type", "Bus", "VendorId", "DeviceId", "SnapConnections">> \o extraFields,
                "pci device: invalid field: %s", 1)

validateUsb(device, extraFields) == <<"usb device validation not implemented">>

validateBus(device, extraFields) ==
    IF device.Bus = "pci" THEN validatePci(device, extraFields)
    ELSE IF device.Bus = "usb" THEN validateUsb(device, extraFields)
    ELSE IF device.Bus = "" THEN validatePci(device, extraFields)
    ELSE <<"invalid bus: %v", device.Bus>>

validateAmd64(device) ==
    checkFields(device, <<"Type", "Architecture", "ManufacturerId", "Flags">>,
                "cpu amd64: invalid field: %s", 1)

validateArm64(device) ==
    checkFields(device,
                <<"Type", "Architecture", "ImplementerId", "PartNumber", "Features">>,
                "cpu arm64: invalid field: %s", 1)

validateCpu(device) ==
    IF ~IsSet(device.Architecture) THEN <<"architecture field required">>
    ELSE IF Val(device.Architecture) = Amd64 THEN validateAmd64(device)
    ELSE IF Val(device.Architecture) = Arm64 THEN validateArm64(device)
    ELSE <<"invalid architecture: %v", Val(device.Architecture)>>

validateGpu(device) ==
    wrapError("gpu: %v", validateBus(device, <<"VRam", "ComputeCapability">>))

validateNpu(device) == wrapError("npu: %v", validateBus(device, <<>>))

validateTypelessDevice(device) ==
    wrapError("typeless device: %v", validateBus(device, <<>>))

Device_validate(device) ==
    IF device.Type = "cpu" THEN wrapError("cpu: %v", validateCpu(device))
    ELSE IF device.Type = "gpu" THEN wrapError("gpu: %v", validateGpu(device))
    ELSE IF device.Type = "npu" THEN wrapError("npu: %v", validateNpu(device))
    ELSE IF device.Type = "" THEN wrapError("typeless: %v", validateTypelessDevice(device))
    ELSE <<"invalid device type: %v", device.Type>>

RECURSIVE validateDevices(_, _, _)
validateDevices(devices, fmt, i) ==
    IF i > Len(devices) THEN NoError
    ELSE LET found(err) ==
                 IF err # NoError THEN <<fmt, i, Len(devices), err>>
                 ELSE validateDevices(devices, fmt, i + 1)
         IN  found(Device_validate(devices[i]))

Devices_validate(devices) ==
    LET anyof(err) ==
            IF err # NoError THEN err
            ELSE validateDevices(devices.Anyof, "invalid device: anyof %d/%d: %v", 1)
    IN  anyof(validateDevices(devices.Allof, "invalid device: allof %d/%d: %v", 1))

\* utils.IsPrimitive on the kind of a decoded configuration value; the kind
\* "null" is the nil interface, on which reflect.TypeOf(p).Kind() panics
IsPrimitive(kind) ==
    IF kind = "null" THEN "panic"
    ELSE IF kind \in {"string", "int", "float", "bool"} THEN "true"
    ELSE "false"

\* the loop over manifest.Configurations; the configurations of the model
\* have at most one key, so the order of the map iteration does not matter
checkConfigurations(configurations) ==
    IF \E key \in DOMAIN configurations : IsPrimitive(configurations[key]) = "panic"
    THEN <<"panic: runtime error: invalid memory address or nil pointer dereference">>
    ELSE IF \E key \in DOMAIN configurations : IsPrimitive(configurations[key]) = "false"
    THEN LET key == CHOOSE k \in DOMAIN configurations :
                        IsPrimitive(configurations[k]) = "false"
         IN  <<"configuration field %s is not a primitive value: %v", key,
               configurations[key]>>
    ELSE NoError

Manifest_validate(manifest, expectedEngineName) ==
    IF manifest.Name = "" THEN <<"required field is not set: name">>
    ELSE IF expectedEngineName # "" /\ manifest.Name # expectedEngineName
    THEN <<"engine directory name should match name in manifest: %s != %s",
           expectedEngineName, manifest.Name>>
    ELSE IF manifest.Description = ""
    THEN <<"required field is not set: description">>
    ELSE IF manifest.Vendor = "" THEN <<"required field is not set: vendor">>
    ELSE IF manifest.Grade = "" THEN <<"required field is not set: grade">>
    ELSE IF manifest.Grade # "stable" /\ manifest.Grade # "devel"
    THEN <<"grade should be 'stable' or 'devel'">>
    ELSE IF IsSet(manifest.Memory) /\ StringToBytes(Val(manifest.Memory)).err # "nil"
    THEN <<"error parsing memory: %v", StringToBytes(Val(manifest.Memory)).err>>
    ELSE IF IsSet(manifest.DiskSpace) /\ StringToBytes(Val(manifest.DiskSpace)).err # "nil"
    THEN <<"error parsing disk space: %v", StringToBytes(Val(manifest.DiskSpace)).err>>
    ELSE IF checkConfigurations(manifest.Configurations) # NoError
    THEN checkConfigurations(manifest.Configurations)
    ELSE Devices_validate(manifest.Devices)

\* the zero value of Manifest
ZeroManifest ==
    [Name |-> "", Description |-> "", Vendor |-> "", Grade |-> "",
     Memory |-> None, DiskSpace |-> None, Configurations |-> [k \in {} |-> ""],
     Devices |-> [Allof |-> <<>>, Anyof |-> <<>>]]

\* yaml decoding of an engine.yaml into a Manifest. A document is blank
\* (white space only) or holds the values of the fields; it may be malformed
\* (not yaml, or a value of the wrong type) and may have a key that Manifest
\* does not have, which only a decoder with KnownFields(true) refuses.
\* yaml.Unmarshal leaves the Manifest at its zero value for a blank document.
Decode(document, knownFields) ==
    IF document.blank THEN [manifest |-> ZeroManifest, err |-> NoError]
    ELSE IF document.malformed
    THEN [manifest |-> ZeroManifest, err |-> <<"yaml: unmarshal errors">>]
    ELSE IF knownFields /\ document.unknown
    THEN [manifest |-> ZeroManifest, err |-> <<"yaml: field not found in type">>]
    ELSE [manifest |-> document.fields, err |-> NoError]

validateManifestYaml(expectedName, yamlData) ==
    IF yamlData.blank THEN <<"empty yaml data">>
    ELSE LET decoded(r) ==
                 IF r.err # NoError THEN <<"error decoding: %v", r.err>>
                 ELSE Manifest_validate(r.manifest, expectedName)
         IN  decoded(Decode(yamlData, TRUE))

\* Validate on the path <directory>/<entry.name>/engine.yaml
Validate(entry) ==
    IF ~entry.isDir THEN <<"error getting file info: %v", entry.name>>
    ELSE IF ~entry.hasManifest THEN <<"manifest file does not exist: %s", entry.name>>
    ELSE validateManifestYaml(entry.name, entry.document)

\* LoadManifest(manifestsDir, entry.name)
LoadManifest(entry) ==
    IF ~entry.isDir THEN [manifest |-> None, err |-> <<"%s: %s", entry.name, "not a directory">>]
    ELSE IF ~entry.hasManifest
    THEN [manifest |-> None, err |-> <<"%w: %s", "engine manifest not found", entry.name>>]
    ELSE LET decoded(r) ==
                 IF r.err # NoError
                 THEN [manifest |-> None, err |-> <<"%s: %s", "manifestsDir", r.err>>]
                 ELSE [manifest |-> Some(r.manifest), err |-> NoError]
         IN  decoded(Decode(entry.document, FALSE))

RECURSIVE loadLoop(_, _, _)
loadLoop(entries, i, acc) ==
    IF i > Len(entries) THEN [manifests |-> acc, err |-> NoError]
    ELSE IF ~entries[i].isDir THEN loadLoop(entries, i + 1, acc)
    ELSE IF ~entries[i].hasManifest
    THEN [manifests |-> <<>>, err |-> <<"%s: %s", entries[i].name, "no such file">>]
    ELSE LET decoded(r) ==
                 IF r.err # NoError
                 THEN [manifests |-> <<>>, err |-> <<"%s: %s", "manifestsDir", r.err>>]
                 ELSE loadLoop(entries, i + 1, Append(acc, r.manifest))
         IN  decoded(Decode(entries[i].document, FALSE))

\* LoadManifests(manifestsDir) on a directory that can be read
LoadManifests(entries) == loadLoop(entries, 1, <<>>)

\* ------------------------------------------------------------------------
\* use-engine: autoSelectEngine and switchEngine over the persisted state.
\* The persisted state is the active engine of the cache ("" when the key is
\* not set) and the engine and user layers of the configuration. What the
\* environment does to one command is a fault: the storage or snap operation
\* that fails first, for an operation made once per configuration key the
\* key it fails on and the keys done before it (Go ranges over the map in
\* any order), or the user declining to install components.
\* ------------------------------------------------------------------------

NoTop == [engine |-> None, err |-> "nil"]

\* the operation fails on fault.key after succeeding on the keys fault.done
FailsAmong(fault, op, keys) ==
    /\ fault.op = op
    /\ fault.key \in keys
    /\ fault.done \subseteq keys \ {fault.key}

\* storage.Set / SetDocument on several keys of a layer
SetKeys(layer, values, keys) ==
    [k \in DOMAIN layer \cup keys |-> IF k \in keys THEN values[k] ELSE layer[k]]

\* storage.Unset on several keys of a layer
UnsetKeys(layer, keys) == [k \in DOMAIN layer \ keys |-> layer[k]]

\* engines.LoadManifest(cmd.EnginesDir, engineName)
LoadManifestNamed(entries, engineName) ==
    IF \E i \in 1..Len(entries) : entries[i].name = engineName
    THEN LoadManifest(entries[CHOOSE i \in 1..Len(entries) : entries[i].name = engineName])
    ELSE [manifest |-> None, err |-> <<"%w: %s", "engine manifest not found", engineName>>]

SetActiveEngine(storage, engine) ==
    IF engine = ""
    THEN [store |-> storage, err |-> <<"engine name cannot be empty">>]
    ELSE [store |-> [storage EXCEPT !.activeEngine = engine], err |-> NoError]

setEngineConfig(storage, engine, fault) ==
    LET documents(r) ==
            IF r.err # NoError
            THEN [store |-> storage, err |-> <<"error setting active engine: %v", r.err>>]
            ELSE IF FailsAmong(fault, "set-document", DOMAIN engine.Configurations)
            THEN [store |-> [r.store EXCEPT
                                !.engine = SetKeys(@, engine.Configurations, fault.done)],
                  err   |-> <<"error setting engine configuration %q: %v", fault.key, "snapctl">>]
            ELSE [store |-> [r.store EXCEPT
                                !.engine = SetKeys(@, engine.Configurations,
                                                   DOMAIN engine.Configurations)],
                  err   |-> NoError]
    IN  IF fault.op = "set-active"
        THEN [store |-> storage, err |-> <<"error setting active engine: %v", <<"snapctl">>>>]
        ELSE documents(SetActiveEngine(storage, engine.Name))

unsetEngineConfig(storage, entries, engineName, fault) ==
    LET cleared == [storage EXCEPT !.engine = [k \in {} |-> ""]]
        overrides(r) ==
            IF r.err # NoError
            THEN [store |-> cleared, err |-> <<"error loading engine manifest: %v", r.err>>]
            ELSE IF FailsAmong(fault, "unset-user", DOMAIN Val(r.manifest).Configurations)
            THEN [store |-> [cleared EXCEPT !.user = UnsetKeys(@, fault.done)],
                  err   |-> <<"error un-setting configuration %q: %v", fault.key, "snapctl">>]
            ELSE [store |-> [cleared EXCEPT
                                !.user = UnsetKeys(@, DOMAIN Val(r.manifest).Configurations)],
                  err   |-> NoError]
    IN  IF fault.op = "unset-engine"
        THEN [store |-> storage,
              err   |-> <<"error un-setting engine configurations: %v", "snapctl">>]
        ELSE overrides(LoadManifestNamed(entries, engineName))

\* the components of the engine are not part of the manifests here: whether
\* some are missing, and how their check and installation end, is the fault
switchEngine(storage, entries, engineName, fault) ==
    LET set(engine, r) ==
            IF r.err # NoError
            THEN [store |-> r.store,
                  err   |-> <<"error un-setting engine configurations: %v", r.err>>]
            ELSE LET done(s) ==
                         IF s.err # NoError
                         THEN [store |-> s.store,
                               err   |-> <<"error setting new engine configurations: %v", s.err>>]
                         ELSE [store |-> s.store, err |-> NoError]
                 IN  done(setEngineConfig(r.store, engine, fault))
        switch(r) ==
            IF r.err # NoError
            THEN [store |-> storage,
                  err   |-> IF r.err[1] = "%w: %s"
                            THEN <<"%q not found", engineName>>
                            ELSE <<"error loading engine manifest: %v", r.err>>]
            ELSE IF fault.op = "components"
            THEN [store |-> storage,
                  err   |-> <<"error checking installed components: %v", "snap">>]
            ELSE IF fault.op = "decline"
            THEN [store |-> storage, err |-> NoError]
            ELSE IF fault.op = "install"
            THEN [store |-> storage, err |-> <<"error installing components: %v", "snap">>]
            ELSE IF fault.op = "get-active"
            THEN [store |-> storage, err |-> <<"error getting active engine: %v", "snapctl">>]
            ELSE IF storage.activeEngine = engineName
            THEN [store |-> storage, err |-> NoError]
            ELSE IF storage.activeEngine # ""
            THEN set(Val(r.manifest),
                     unsetEngineConfig(storage, entries, storage.activeEngine, fault))
            ELSE set(Val(r.manifest), [store |-> storage, err |-> NoError])
    IN  switch(LoadManifestNamed(entries, engineName))

\* scoreEngines(ctx) of the command line: the scored list, or the error
scoreEngines(entries, machineInfo, snapctlState, fault) ==
    LET score(r) ==
            IF r.err # "nil"
            THEN [scoredEngines |-> <<>>, err |-> <<"error scoring engines: %v", r.err>>]
            ELSE [scoredEngines |-> r.scoredEngines, err |-> NoError]
        load(r) ==
            IF r.err # NoError
            THEN [scoredEngines |-> <<>>, err |-> <<"error loading engines: %v", r.err>>]
            ELSE IF fault.op = "machine-info"
            THEN [scoredEngines |-> <<>>,
                  err |-> <<"error getting machine info: %v", "hardware_info">>]
            ELSE score(ScoreEngines(machineInfo, r.manifests, snapctlState))
    IN  load(LoadManifests(entries))

\* selected is what TopEngine returned, NoTop when it was not called
autoSelectEngine(storage, entries, machineInfo, snapctlState, fault) ==
    LET use(scored, top) ==
            IF top.err # "nil"
            THEN [store |-> storage, scoredEngines |-> scored, selected |-> top,
                  err |-> <<"error finding top engine: %v", top.err>>]
            ELSE LET done(r) ==
                         [store |-> r.store, scoredEngines |-> scored, selected |-> top,
                          err |-> wrapError("failed to use engine: %s", r.err)]
                 IN  done(switchEngine(storage, entries, Val(top.engine).Manifest.Name, fault))
        select(r) ==
            IF r.err # NoError
            THEN [store |-> storage, scoredEngines |-> <<>>, selected |-> NoTop,
                  err |-> <<"error scoring engines: %v", r.err>>]
            ELSE use(r.scoredEngines, TopEngine(r.scoredEngines))
    IN  select(scoreEngines(entries, machineInfo, snapctlState, fault))

\* ------------------------------------------------------------------------
\* Values the state is drawn from
\* ------------------------------------------------------------------------

S1 == <<"1">>

S100M == <<"1", "0", "0", "M">>

S300M == <<"3", "0", "0", "M">>

NoProperties == [k \in {} |-> <<>>]

CpuIntel ==
    [Architecture |-> Amd64, ManufacturerId |-> "GenuineIntel", Flags |-> <<"avx2">>,
     ImplementerId |-> 0, PartNumber |-> 0, Features |-> <<>>]

CpuAmd ==
    [Architecture |-> Amd64, ManufacturerId |-> "AuthenticAMD", Flags |-> <<>>,
     ImplementerId |-> 0, PartNumber |-> 0, Features |-> <<>>]

\* integrated Intel display controller: class 0x0300, vendor 0x8086, bus 0
IGpu ==
    [Score |-> 0, Slot |-> "00:02.0", BusNumber |-> 0, DeviceClass |-> 768,
     VendorId |-> 32902, DeviceId |-> 39497, AdditionalProperties |-> NoProperties]

\* discrete NVIDIA display controller: class 0x0300, vendor 0x10de, bus 1
DGpu ==
    [Score |-> 0, Slot |-> "01:00.0", BusNumber |-> 1, DeviceClass |-> 768,
     VendorId |-> 4318, DeviceId |-> 8708,
     AdditionalProperties |-> [k \in {"vram"} |-> <<"2", "0", "9", "7", "1", "5", "2", "0", "0">>]]

HwInfos ==
    LET CpuLists == {None, Some(<<>>), Some(<<CpuIntel>>), Some(<<CpuIntel, CpuAmd>>)}
        PciLists == {<<>>, <<IGpu>>, <<IGpu, DGpu>>}
        MemoryInfos ==
            {[TotalRam |-> 0, TotalSwap |-> 0],
             [TotalRam |-> 100000000, TotalSwap |-> 200000000],
             [TotalRam |-> 200000000, TotalSwap |-> 200000000],
             [TotalRam |-> MaxUint, TotalSwap |-> 1]}
        DiskInfos ==
            {[k \in {} |-> [Total |-> 0, Avail |-> 0]],
             [k \in {SnapStoragePath} |-> [Total |-> 0, Avail |-> 400000000]]}
    IN
    [Cpus : CpuLists, Memory : MemoryInfos, Disk : DiskInfos, PciDevices : PciLists]

ConnectionNames == {"nvidia-driver"}

NoDevice ==
    [Type |-> "", Bus |-> "", Architecture |-> None, ManufacturerId |-> None,
     Flags |-> <<>>, ImplementerId |-> None, PartNumber |-> None, Features |-> <<>>,
     VendorId |-> None, DeviceId |-> None, VRam |-> None, ComputeCapability |-> None,
     SnapConnections |-> <<>>, CompatibilityIssues |-> <<>>]

DCpuIntel == [NoDevice EXCEPT !.Type = "cpu", !.ManufacturerId = Some("GenuineIntel")]

DCpuAvx2 ==
    [NoDevice EXCEPT !.Type = "cpu", !.Architecture = Some(Amd64),
                     !.ManufacturerId = Some("GenuineIntel"), !.Flags = <<"avx2">>]

DPciIntel == [NoDevice EXCEPT !.VendorId = Some(32902)]

DGpuNvidia ==
    [NoDevice EXCEPT !.Type = "gpu", !.Bus = "pci", !.VendorId = Some(4318),
                     !.VRam = Some(S100M), !.SnapConnections = <<"nvidia-driver">>]

DGpuAny == [NoDevice EXCEPT !.Type = "gpu", !.Bus = "pci"]

DUsb == [NoDevice EXCEPT !.Bus = "usb"]

NoManifest ==
    [Name |-> "", Description |-> "description", Vendor |-> "vendor",
     Grade |-> "stable", Memory |-> None, DiskSpace |-> None,
     Configurations |-> [k \in {} |-> ""],
     Devices |-> [Allof |-> <<>>, Anyof |-> <<>>]]

ManifestPool ==
    {[NoManifest EXCEPT !.Name = "cpu-avx1", !.Memory = Some(S300M),
                        !.Devices.Allof = <<DCpuIntel>>],
     [NoManifest EXCEPT !.Name = "cpu-avx2", !.DiskSpace = Some(S300M),
                        !.Devices.Allof = <<DCpuAvx2>>],
     [NoManifest EXCEPT !.Name = "intel-gpu", !.Memory = Some(S1),
                        !.Devices.Allof = <<DCpuIntel, DPciIntel>>],
     [NoManifest EXCEPT !.Name = "cuda-generic", !.Grade = "devel",
                        !.Devices.Anyof = <<DGpuNvidia, DGpuAny>>],
     [NoManifest EXCEPT !.Name = "usb-stick",
                        !.Devices.Anyof = <<DUsb, DCpuIntel>>],
     [NoManifest EXCEPT !.Name = "generic", !.Memory = Some(S300M),
                        !.DiskSpace = Some(S300M)],
     [NoManifest EXCEPT !.Name = "any-intel", !.Grade = "devel", !.Memory = Some(S1),
                        !.Devices.Anyof = <<DPciIntel>>]}

\* a directory holds every engine once: the batches are the lists of distinct
\* manifests of at most MaxBatch elements
RECURSIVE ListsUpTo(_, _)
ListsUpTo(pool, n) ==
    IF n = 0 THEN {<<>>}
    ELSE LET shorter == ListsUpTo(pool, n - 1)
         IN  shorter \cup {Append(l, m) : l \in shorter, m \in pool}

Distinct(l) == \A i, j \in 1..Len(l) : i # j => l[i].Name # l[j].Name

Batches == {l \in ListsUpTo(ManifestPool, MaxBatch) : Distinct(l)}

\* ------------------------------------------------------------------------
\* State
\* ------------------------------------------------------------------------

VARIABLES
    hardwareInfo,   \* the snapshot the caller holds
    manifests,      \* the manifests the caller holds
    snapctl,        \* what snapctl answers for every plug
    scoredEngines,  \* result of the last ScoreEngines call
    scoreErr,       \* its error, "nil" for none
    topEngine,      \* result of the last TopEngine call
    pc,             \* "loaded", "scored", "failed" or "selected"
    calls,          \* number of ScoreEngines calls made
    probed,         \* the snapshot as it was captured
    loaded,         \* the manifests as they were loaded
    previous,       \* result of the ScoreEngines call before the last one
    directory,      \* the entries of the engines directory
    validateErrs,   \* per entry: the result of Validate on its manifest file
    loadOne,        \* per entry: the result of LoadManifest on its name
    loadErr,        \* the error of LoadManifests
    pciCall,        \* a call of pci.Match on its own: its arguments and results
    sizeCall,       \* a call of utils.StringToBytes on its own
    store,          \* the persisted active engine and configuration layers
    useCall         \* a run of use-engine: its arguments, the state before, its error

\* the variables of loading and validation
loadVars == <<directory, validateErrs, loadOne, loadErr>>

vars == <<hardwareInfo, manifests, snapctl, scoredEngines, scoreErr, topEngine,
          pc, calls, probed, loaded, previous, directory, validateErrs, loadOne,
          loadErr, pciCall, sizeCall, store, useCall>>

\* nothing is persisted
NoStore == [activeEngine |-> "", engine |-> [k \in {} |-> ""], user |-> [k \in {} |-> ""]]

\* use-engine is not run
NoUse == [auto |-> FALSE, engineName |-> "", before |-> NoStore, err |-> <<>>]

\* the variables of the calls that are made on their own
callVars == <<pciCall, sizeCall, store, useCall>>

\* no such call is made
NoCalls ==
    /\ pciCall = [manifestDevice |-> <<>>, hostPciDevices |-> <<>>,
                  scored |-> <<>>, match |-> <<>>]
    /\ sizeCall = [sizeString |-> <<>>, result |-> <<>>]
    /\ store = NoStore
    /\ useCall = NoUse

\* the engines directory is not looked at
NoDirectory ==
    /\ directory = <<>>
    /\ validateErrs = <<>>
    /\ loadOne = <<>>
    /\ loadErr = <<>>
    /\ NoCalls

Init ==
    LET SnapctlStates == [ConnectionNames -> {"connected", "disconnected"}]
    IN
    /\ hardwareInfo \in HwInfos
    /\ manifests \in Batches
    /\ snapctl \in SnapctlStates
    /\ scoredEngines = <<>>
    /\ scoreErr = "nil"
    /\ topEngine = NoTop
    /\ pc = "loaded"
    /\ calls = 0
    /\ probed = hardwareInfo
    /\ loaded = manifests
    /\ previous = <<>>
    /\ NoDirectory

\* selector.ScoreEngines(hardwareInfo, manifests)
CallScoreEngines ==
    /\ pc \in {"loaded", "scored", "selected"}
    /\ calls < MaxCalls
    /\ LET returns(r) ==
               /\ scoredEngines' = r.scoredEngines
               /\ scoreErr' = r.err
               /\ manifests' = r.manifests
               /\ hardwareInfo' = r.hardwareInfo
               /\ pc' = IF r.err = "nil" THEN "scored" ELSE "failed"
       IN  returns(ScoreEngines(hardwareInfo, manifests, snapctl))
    /\ calls' = calls + 1
    /\ previous' = scoredEngines
    /\ topEngine' = NoTop
    /\ UNCHANGED <<snapctl, probed, loaded>>
    /\ UNCHANGED loadVars
    /\ UNCHANGED callVars

\* selector.TopEngine(scoredEngines)
CallTopEngine ==
    /\ pc = "scored"
    /\ topEngine' = TopEngine(scoredEngines)
    /\ pc' = "selected"
    /\ UNCHANGED <<hardwareInfo, manifests, snapctl, scoredEngines, scoreErr,
                   calls, probed, loaded, previous>>
    /\ UNCHANGED loadVars
    /\ UNCHANGED callVars

Next == CallScoreEngines \/ CallTopEngine

Spec == Init /\ [][Next]_vars

\* ------------------------------------------------------------------------
\* TopEngine over scored lists with many ties: the state right after
\* ScoreEngines has scored a directory of engines on one fixed host
\* ------------------------------------------------------------------------

TopHw ==
    [Cpus |-> Some(<<CpuIntel>>),
     Memory |-> [TotalRam |-> 200000000, TotalSwap |-> 200000000],
     Disk |-> [k \in {SnapStoragePath} |-> [Total |-> 0, Avail |-> 400000000]],
     PciDevices |-> <<>>]

TopSnapctl == [c \in ConnectionNames |-> "connected"]

EngineNames ==
    <<"e01", "e02", "e03", "e04", "e05", "e06", "e07",
      "e08", "e09", "e10", "e11", "e12", "e13">>

\* a manifest that scores 0 (unmatched usb device), 1 (memory) or 2 (memory
\* and disk space) on TopHw
TopManifest(name, grade, score) ==
    [NoManifest EXCEPT !.Name = name, !.Grade = grade,
                       !.Memory = Some(S300M),
                       !.DiskSpace = IF score = 2 THEN Some(S300M) ELSE None,
                       !.Devices.Anyof = IF score = 0 THEN <<DUsb>> ELSE <<>>]

ShortChoices == {"stable", "devel"} \X {0, 1, 2}

LongChoices == {"stable"} \X {1, 2}

TopBatchesOf(n, choices) ==
    {[i \in 1..n |-> TopManifest(EngineNames[i], f[i][1], f[i][2])] :
        f \in [1..n -> choices]}

\* every short directory, and the directories of maxInsertion + 1 stable
\* engines that all are compatible
TopBatches ==
    UNION {TopBatchesOf(n, ShortChoices) : n \in 0..MaxShort}
        \cup TopBatchesOf(maxInsertion + 1, LongChoices)

InitTop ==
    /\ hardwareInfo = TopHw
    /\ snapctl = TopSnapctl
    /\ loaded \in TopBatches
    /\ probed = hardwareInfo
    /\ LET returns(r) ==
               /\ manifests = r.manifests
               /\ scoredEngines = r.scoredEngines
               /\ scoreErr = r.err
       IN  returns(ScoreEngines(hardwareInfo, loaded, snapctl))
    /\ topEngine = NoTop
    /\ pc = "scored"
    /\ calls = 1
    /\ previous = <<>>
    /\ NoDirectory

NextTop == CallTopEngine

SpecTop == InitTop /\ [][NextTop]_vars

\* ------------------------------------------------------------------------
\* Properties of TopEngine (checked under SpecTop)
\* ------------------------------------------------------------------------

Selectable ==
    {j \in 1..Len(scoredEngines) :
        scoredEngines[j].Score > 0 /\ scoredEngines[j].Manifest.Grade = "stable"}

BestScore == CHOOSE b \in {scoredEngines[j].Score : j \in Selectable} :
                 \A j \in Selectable : scoredEngines[j].Score <= b

\* the first position of the input that holds a selectable engine of the
\* highest score
FirstBest == CHOOSE j \in Selectable :
                 /\ scoredEngines[j].Score = BestScore
                 /\ \A k \in Selectable : scoredEngines[k].Score = BestScore => j <= k

\* C3: TopEngine never returns a devel-grade manifest: what it returns is
\* stable, has Score > 0, and no stable manifest with Score > 0 of the input
\* has a higher Score
C3_TopEngineStableAndBest ==
    (pc = "selected" /\ IsSet(topEngine.engine)) =>
        LET top == Val(topEngine.engine)
        IN  /\ top.Manifest.Grade = "stable"
            /\ top.Score > 0
            /\ \E j \in 1..Len(scoredEngines) : scoredEngines[j] = top
            /\ \A j \in Selectable : top.Score >= scoredEngines[j].Score

\* C3 witness: a stable engine was returned although a devel engine of the
\* input has a strictly higher score
C3_Witness ==
    /\ pc = "selected"
    /\ IsSet(topEngine.engine)
    /\ \E j \in 1..Len(scoredEngines) :
          /\ scoredEngines[j].Manifest.Grade = "devel"
          /\ scoredEngines[j].Score > Val(topEngine.engine).Score

\* C4: TopEngine returns nil with ErrorNoCompatibleEngine exactly when no
\* manifest of the input is stable with Score > 0 (empty input and all-zero
\* input included), and a manifest with a nil error otherwise
C4_TopEngineSentinel ==
    pc = "selected" =>
        IF Selectable = {}
        THEN topEngine.engine = None /\ topEngine.err = ErrorNoCompatibleEngine
        ELSE IsSet(topEngine.engine) /\ topEngine.err = "nil"

\* C4 witness: the sentinel was returned for a non-empty input in which a
\* devel engine is compatible
C4_Witness ==
    /\ pc = "selected"
    /\ topEngine.err = ErrorNoCompatibleEngine
    /\ \E j \in 1..Len(scoredEngines) : scoredEngines[j].Score > 0

\* C5: when several stable manifests with Score > 0 share the highest score,
\* TopEngine returns the one that comes first in the input
C5_TopEngineFirstOfTies ==
    (pc = "selected" /\ IsSet(topEngine.engine)) =>
        Val(topEngine.engine) = scoredEngines[FirstBest]

\* ------------------------------------------------------------------------
\* Properties of the engine scorer (checked under Spec)
\* ------------------------------------------------------------------------

Scored == pc \in {"scored", "selected"}

\* the score the matcher of a device requirement returns on the captured
\* snapshot: cpu.Match, the usb branch (always 0) or pci.Match
matcherScore(device) ==
    IF device.Type = "cpu" THEN cpu_Match(device, probed.Cpus).score
    ELSE IF device.Bus = "usb" THEN 0
    ELSE pci_Match(device, probed.PciDevices, snapctl).score

RECURSIVE sumPassing(_, _)
sumPassing(devices, i) ==
    IF i > Len(devices) THEN 0
    ELSE matcherScore(devices[i]) + sumPassing(devices, i + 1)

\* C1: if a requirement of a non-empty allof group scores 0, the manifest
\* scores 0, whatever the memory check, the disk check and the other
\* requirements do
C1_AllofZeroScoresZero ==
    Scored =>
        \A i \in 1..Len(loaded) :
            (\E k \in 1..Len(loaded[i].Devices.Allof) :
                 matcherScore(loaded[i].Devices.Allof[k]) = 0)
                => scoredEngines[i].Score = 0

\* C2: a manifest with a non-empty anyof group scores 0 if no requirement of
\* the group scores > 0; otherwise the group is satisfied and contributes the
\* sum of the scores of its passing requirements
C2_AnyofSumOfPassing ==
    Scored =>
        \A i \in 1..Len(loaded) :
            LET anyof == loaded[i].Devices.Anyof
                group == checkDevicesAny(probed, anyof, snapctl)
            IN  Len(anyof) > 0 =>
                    IF \A k \in 1..Len(anyof) : matcherScore(anyof[k]) = 0
                    THEN scoredEngines[i].Score = 0
                    ELSE /\ group.issues = <<>>
                         /\ group.extraScore = sumPassing(anyof, 1)
                         /\ scoredEngines[i].Score >= sumPassing(anyof, 1)

\* C6: every ScoredManifest has Compatible = (Score > 0) and a Score >= 0
C6_CompatibleIffPositive ==
    \A i \in 1..Len(scoredEngines) :
        /\ scoredEngines[i].Score \in Nat
        /\ scoredEngines[i].Compatible = (scoredEngines[i].Score > 0)

\* C6 witness: one batch was scored into a compatible and an incompatible
\* engine
C6_Witness ==
    /\ Scored
    /\ \E i, j \in 1..Len(scoredEngines) :
          /\ scoredEngines[i].Score = 0 /\ ~scoredEngines[i].Compatible
          /\ scoredEngines[j].Score > 0 /\ scoredEngines[j].Compatible

clearIssues(devices) ==
    [k \in 1..Len(devices) |-> [devices[k] EXCEPT !.CompatibilityIssues = <<>>]]

\* the manifests without the issues recorded on their device requirements
StripIssues(ms) ==
    [i \in 1..Len(ms) |->
        [ms[i] EXCEPT !.Devices.Allof = clearIssues(@),
                      !.Devices.Anyof = clearIssues(@)]]

\* name, score, flag and manifest-level issues of every scored engine
Outcome(engines) ==
    [i \in 1..Len(engines) |->
        [Name                |-> engines[i].Manifest.Name,
         Score               |-> engines[i].Score,
         Compatible          |-> engines[i].Compatible,
         CompatibilityIssues |-> engines[i].CompatibilityIssues]]

Reverse(l) == [i \in 1..Len(l) |-> l[Len(l) + 1 - i]]

\* C7: scoring leaves the snapshot and every field of every manifest as they
\* were, and scoring the same manifests twice yields identical ScoredManifests
C7_InputsUnchanged ==
    /\ hardwareInfo = probed
    /\ manifests = loaded
    /\ (Scored /\ calls >= 2) => scoredEngines = previous

\* C7 as amended: scoring leaves the snapshot and every field of every
\* manifest as they were, except the CompatibilityIssues of the device
\* requirements; scoring twice yields the same Score, Compatible flag and
\* manifest-level issues
C7_OnlyDeviceIssuesChange ==
    /\ hardwareInfo = probed
    /\ StripIssues(manifests) = StripIssues(loaded)
    /\ (Scored /\ calls >= 2) => Outcome(scoredEngines) = Outcome(previous)

\* C7 witness: the manifests were scored twice on a host with a matching
\* discrete gpu, and issues were recorded on a device requirement
C7_Witness ==
    /\ Scored
    /\ calls >= 2
    /\ manifests # loaded
    /\ \E i \in 1..Len(scoredEngines) : scoredEngines[i].Score > PciDeviceExternal

\* C8: however the batch is ordered and however often it was scored, every
\* manifest gets the Score, Compatible flag and issue list it gets when it is
\* scored alone, and TopEngine returns the same engine when the manifests are
\* scored in the opposite order
C8_IterationsIndependent ==
    Scored =>
        /\ Len(scoredEngines) = Len(loaded)
        /\ \A i \in 1..Len(loaded) :
              LET alone == ScoreEngines(probed, <<loaded[i]>>, snapctl)
              IN  /\ alone.err = "nil"
                  /\ Outcome(alone.scoredEngines)[1] = Outcome(scoredEngines)[i]
        /\ pc = "selected" =>
              LET backwards == ScoreEngines(probed, Reverse(loaded), snapctl)
                  top == TopEngine(Reverse(backwards.scoredEngines))
              IN  /\ top.err = topEngine.err
                  /\ Outcome(top.engine) = Outcome(topEngine.engine)

\* C8 witness: a batch of two was scored a second time, the first engine
\* with issues and the second one compatible
C8_Witness ==
    /\ Scored
    /\ calls >= 2
    /\ Len(scoredEngines) = 2
    /\ Len(scoredEngines[1].CompatibilityIssues) > 0
    /\ scoredEngines[2].Score > 0

\* a manifest whose declared memory or disk requirement has no measurement
\* in the captured snapshot
Unmeasured(m) ==
    \/ IsSet(m.Memory) /\ probed.Memory.TotalRam = 0
    \/ IsSet(m.DiskSpace) /\ SnapStoragePath \notin DOMAIN probed.Disk

\* C9: if any manifest of the batch declares a memory (disk) requirement the
\* snapshot has no measurement for, ScoreEngines returns an error and no
\* ScoredManifest; a batch of manifests that declare neither returns no error
C9_UnmeasuredAbortsBatch ==
    pc # "loaded" =>
        /\ (\E i \in 1..Len(loaded) : Unmeasured(loaded[i]))
              => (pc = "failed" /\ scoreErr # "nil" /\ scoredEngines = <<>>)
        /\ (\A i \in 1..Len(loaded) :
                ~IsSet(loaded[i].Memory) /\ ~IsSet(loaded[i].DiskSpace))
              => scoreErr = "nil"

\* C9 witness: the batch was aborted by its second manifest, after a first
\* manifest that has all its measurements
C9_Witness ==
    /\ pc = "failed"
    /\ Len(loaded) = 2
    /\ ~Unmeasured(loaded[1])
    /\ Unmeasured(loaded[2])
    /\ scoredEngines = <<>>

\* C10: with TotalRam > 0 the memory check passes iff the arithmetic sum
\* TotalRam + TotalSwap is at least the required byte count; a failing check
\* forces score 0 with an issue, a passing check on a manifest without other
\* requirements gives score 1
C10_MemoryTrueSum ==
    Scored =>
        \A i \in 1..Len(loaded) :
            (IsSet(loaded[i].Memory) /\ probed.Memory.TotalRam > 0) =>
                LET required == StringToBytes(Val(loaded[i].Memory)).value
                    enough   == probed.Memory.TotalRam + probed.Memory.TotalSwap >= required
                    tooSmall == Contains(scoredEngines[i].CompatibilityIssues,
                                         "host system memory too small")
                IN  /\ enough <=> ~tooSmall
                    /\ tooSmall => scoredEngines[i].Score = 0
                    /\ (/\ enough
                        /\ ~IsSet(loaded[i].DiskSpace)
                        /\ Len(loaded[i].Devices.Allof) = 0
                        /\ Len(loaded[i].Devices.Anyof) = 0)
                          => scoredEngines[i].Score = 1

\* ------------------------------------------------------------------------
\* The matchers over many requirements: one engine (or two engines that
\* differ in one cpu flag) is scored on hosts that differ in their cpus or in
\* their pci devices
\* ------------------------------------------------------------------------

\* most cpus on a host
MaxCpus == 2

\* most flags a cpu requirement lists
MaxFlags == 2

\* most pci devices on a host
MaxPci == 2

CpuArm ==
    [Architecture |-> Arm64, ManufacturerId |-> "", Flags |-> <<>>,
     ImplementerId |-> 65, PartNumber |-> 3336, Features |-> <<"asimd">>]

\* a display controller of another vendor that has the device id of DGpu
AGpu == [DGpu EXCEPT !.Slot = "02:00.0", !.BusNumber = 2, !.VendorId = 4098]

CpuRequirements ==
    {[NoDevice EXCEPT !.Type = "cpu", !.Architecture = a, !.ManufacturerId = m,
                      !.Flags = f, !.ImplementerId = i, !.Features = ft] :
        a \in {None, Some(Amd64), Some(Arm64)},
        m \in {None, Some("GenuineIntel")},
        f \in ListsUpTo({"avx2", "avx512f"}, MaxFlags),
        i \in {None, Some(65)},
        ft \in {<<>>, <<"asimd">>, <<"sve">>}}

PciRequirements ==
    {[NoDevice EXCEPT !.Type = t, !.Bus = b, !.VendorId = v, !.DeviceId = d] :
        t \in {"", "gpu"},
        b \in {"", "pci"},
        v \in {None, Some(32902), Some(4318)},
        d \in {None, Some(39497), Some(8708)}}

\* an engine whose only requirement is the device
AllofManifest(name, device) ==
    [NoManifest EXCEPT !.Name = name, !.Devices.Allof = <<device>>]

\* the directories with a cpu requirement: one engine, or the engine next to
\* the one that requires the flag avx2 on top
CpuBatches ==
    {<<AllofManifest("cpu-avx1", d)>> : d \in CpuRequirements}
        \cup {<<AllofManifest("cpu-avx1", d),
                AllofManifest("cpu-avx2", [d EXCEPT !.Flags = Append(@, "avx2")])>> :
                 d \in CpuRequirements}

PciBatches ==
    LET AnyofManifest(name, device) ==
            [NoManifest EXCEPT !.Name = name, !.Devices.Anyof = <<device>>]
    IN
    {<<AllofManifest("pci-all", d)>> : d \in PciRequirements}
        \cup {<<AnyofManifest("pci-any", d)>> : d \in PciRequirements}

\* the directories of one engine with a usb requirement in allof or in
\* anyof, alone or before or after another requirement
UsbBatches ==
    LET usb    == {[NoDevice EXCEPT !.Type = t, !.Bus = "usb"] : t \in {"", "gpu", "npu"}}
        others == {DCpuIntel, DGpuAny}
        with   == {<<u>> : u \in usb}
                      \cup {<<o, u>> : o \in others, u \in usb}
                      \cup {<<u, o>> : o \in others, u \in usb}
        without == {<<>>} \cup {<<o>> : o \in others}
    IN  {<<[NoManifest EXCEPT !.Name = "usb-all", !.Memory = mem,
                              !.Devices.Allof = l, !.Devices.Anyof = o]>> :
            mem \in {None, Some(S1)}, l \in with, o \in without}
            \cup {<<[NoManifest EXCEPT !.Name = "usb-any", !.Memory = mem,
                                       !.Devices.Allof = o, !.Devices.Anyof = l]>> :
                     mem \in {None, Some(S1)}, l \in with, o \in without}

InitMatch ==
    LET MatchCpuLists ==
            {None} \cup {Some(l) : l \in ListsUpTo({CpuIntel, CpuAmd, CpuArm}, MaxCpus)}
        MatchPciLists == ListsUpTo({IGpu, DGpu, AGpu}, MaxPci)
        \* the directories with an engine that requires nothing, stable or devel,
        \* alone or before or after another engine
        BareBatches ==
            LET bare == {[NoManifest EXCEPT !.Name = "bare", !.Grade = g] : g \in {"stable", "devel"}}
            IN  {<<b>> : b \in bare}
                    \cup {<<b, m>> : b \in bare, m \in ManifestPool}
                    \cup {<<m, b>> : b \in bare, m \in ManifestPool}
    IN
    /\ \/ /\ hardwareInfo \in {[TopHw EXCEPT !.Cpus = c] : c \in MatchCpuLists}
          /\ manifests \in CpuBatches
       \/ /\ hardwareInfo \in {[TopHw EXCEPT !.Cpus = c, !.PciDevices = p] :
                                c \in {None, Some(<<CpuIntel>>), Some(<<CpuAmd>>)},
                                p \in {<<>>, <<IGpu>>, <<IGpu, DGpu>>}}
          /\ manifests \in UsbBatches
       \/ /\ hardwareInfo \in {[TopHw EXCEPT !.PciDevices = p] : p \in MatchPciLists}
          /\ manifests \in PciBatches
       \/ /\ hardwareInfo \in HwInfos
          /\ manifests \in BareBatches
    /\ snapctl = TopSnapctl
    /\ scoredEngines = <<>>
    /\ scoreErr = "nil"
    /\ topEngine = NoTop
    /\ pc = "loaded"
    /\ calls = 0
    /\ probed = hardwareInfo
    /\ loaded = manifests
    /\ previous = <<>>
    /\ NoDirectory

NextMatch == CallScoreEngines \/ CallTopEngine

SpecMatch == InitMatch /\ [][NextMatch]_vars

\* ------------------------------------------------------------------------
\* Properties of the matchers (checked under SpecMatch)
\* ------------------------------------------------------------------------

\* the requirements of the loaded engines
Requirements ==
    UNION {Range(loaded[i].Devices.Allof) \cup Range(loaded[i].Devices.Anyof) :
              i \in 1..Len(loaded)}

\* what the filter has to keep: both ids are unset or equal to the device's
idsMatch(device, pciDevice) ==
    /\ ~IsSet(device.VendorId) \/ Val(device.VendorId) = pciDevice.VendorId
    /\ ~IsSet(device.DeviceId) \/ Val(device.DeviceId) = pciDevice.DeviceId

\* C11: filterPciDevices keeps a host device iff the requirement's vendor-id
\* is unset or equal to the device's and its device-id is unset or equal to
\* the device's; a host device with another device-id is never kept
C11_FilterKeepsIffIdsMatch ==
    Scored =>
        \A d \in Requirements :
            d.Type # "cpu" =>
                LET kept == filterPciDevices(probed.PciDevices, d.VendorId, d.DeviceId)
                IN  /\ kept = SelectSeq(probed.PciDevices, LAMBDA p : idsMatch(d, p))
                    /\ \A k \in 1..Len(kept) :
                           IsSet(d.DeviceId) => kept[k].DeviceId = Val(d.DeviceId)

\* the cpus of the captured snapshot, empty for an absent list
hostCpuList == IF IsSet(probed.Cpus) THEN Val(probed.Cpus) ELSE <<>>

MaxOf(scores) == CHOOSE m \in scores : \A n \in scores : n <= m

\* the engines of the directory whose only requirement is one cpu device
OnlyCpu(m) ==
    /\ Len(m.Devices.Allof) = 1
    /\ m.Devices.Allof[1].Type = "cpu"
    /\ Len(m.Devices.Anyof) = 0
    /\ ~IsSet(m.Memory)
    /\ ~IsSet(m.DiskSpace)

\* C12: with several host cpus cpu.Match returns the maximum of the per-cpu
\* scores, and an engine whose only requirement is the cpu device is
\* compatible with that maximum as its score as soon as one host cpu
\* matches, even when other host cpus do not
C12_AnyCpuSatisfies ==
    Scored =>
        \A i \in 1..Len(loaded) :
            (OnlyCpu(loaded[i]) /\ Len(hostCpuList) > 0) =>
                LET d == loaded[i].Devices.Allof[1]
                    perCpu == {CheckCpu(d, hostCpuList[j]).cpuScore :
                                  j \in 1..Len(hostCpuList)}
                IN  /\ cpu_Match(d, probed.Cpus).score = MaxOf(perCpu)
                    /\ MaxOf(perCpu) > 0 =>
                           /\ scoredEngines[i].Compatible
                           /\ scoredEngines[i].Score = MaxOf(perCpu)

\* C13: if the architecture of a cpu requirement is set and differs from the
\* host cpu's, CheckCpu gives that cpu score 0 and exactly one issue,
\* "architecture not <X>", whatever other fields the requirement sets
C13_ArchitectureMismatchOnly ==
    Scored =>
        \A d \in Requirements : \A j \in 1..Len(hostCpuList) :
            (/\ d.Type = "cpu"
             /\ IsSet(d.Architecture)
             /\ Val(d.Architecture) # hostCpuList[j].Architecture) =>
                CheckCpu([d EXCEPT !.CompatibilityIssues = <<>>], hostCpuList[j])
                    = [cpuScore |-> 0,
                       issues |-> <<(<<"architecture not %s", Val(d.Architecture)>>)>>]

\* the required flags the host cpu lacks, by position in the requirement
missingFlags(d, c) == {k \in 1..Len(d.Flags) : ~Contains(c.Flags, d.Flags[k])}

vendorMismatch(d, c) ==
    IsSet(d.ManufacturerId) /\ Val(d.ManufacturerId) # c.ManufacturerId

\* the engine next to the one that requires avx2 on top, where the first
\* requires only the manufacturer GenuineIntel, on a host with one
\* GenuineIntel amd64 cpu that has the flag avx2
ScenarioA ==
    /\ Len(hostCpuList) = 1
    /\ hostCpuList[1].Architecture = Amd64
    /\ hostCpuList[1].ManufacturerId = "GenuineIntel"
    /\ Contains(hostCpuList[1].Flags, "avx2")
    /\ Len(loaded) = 2
    /\ OnlyCpu(loaded[1])
    /\ OnlyCpu(loaded[2])
    /\ LET d == loaded[1].Devices.Allof[1]
       IN  /\ d.Architecture \in {None, Some(Amd64)}
           /\ d.ManufacturerId = Some("GenuineIntel")
           /\ d.Flags = <<>>
           /\ ~IsSet(d.ImplementerId)
           /\ d.Features = <<>>
           /\ loaded[2].Devices.Allof[1] = [d EXCEPT !.Flags = <<"avx2">>]

\* C14: for an amd64 host cpu and a requirement whose architecture is unset
\* or amd64: with the manufacturer equal (when set) and every required flag
\* present the score is 10 + 6 if the manufacturer is set + 1 per required
\* flag; otherwise the score is 0, with one issue for the manufacturer
\* mismatch and one for each missing flag. On a GenuineIntel host with avx2
\* the engine that also requires avx2 scores 1 more than the one that
\* requires only the manufacturer, and TopEngine selects it
C14_Amd64Score ==
    /\ Scored =>
           \A d \in Requirements : \A j \in 1..Len(hostCpuList) :
               (/\ d.Type = "cpu"
                /\ hostCpuList[j].Architecture = Amd64
                /\ d.Architecture \in {None, Some(Amd64)}) =>
                   LET c == hostCpuList[j]
                       r == CheckCpu(d, c)
                   IN  IF ~vendorMismatch(d, c) /\ missingFlags(d, c) = {}
                       THEN /\ r.issues = <<>>
                            /\ r.cpuScore = 10 + (IF IsSet(d.ManufacturerId) THEN 6 ELSE 0)
                                               + Len(d.Flags)
                       ELSE /\ r.cpuScore = 0
                            /\ Len(r.issues) = (IF vendorMismatch(d, c) THEN 1 ELSE 0)
                                                  + Cardinality(missingFlags(d, c))
                            /\ vendorMismatch(d, c) =>
                                   Contains(r.issues,
                                       <<"manufacturer id mismatch: %s", c.ManufacturerId>>)
                            /\ \A k \in missingFlags(d, c) :
                                   Contains(r.issues, <<"flag %s missing", d.Flags[k]>>)
    /\ (Scored /\ ScenarioA) =>
           /\ scoredEngines[1].Compatible
           /\ scoredEngines[2].Compatible
           /\ scoredEngines[2].Score = scoredEngines[1].Score + 1
           /\ pc = "selected" =>
                  /\ IsSet(topEngine.engine)
                  /\ Val(topEngine.engine).Manifest.Name = loaded[2].Name

\* C14 witness: TopEngine has selected cpu-avx2 (17) over cpu-avx1 (16)
C14_Witness ==
    /\ pc = "selected"
    /\ ScenarioA
    /\ scoredEngines[1].Score = 16
    /\ scoredEngines[2].Score = 17
    /\ Val(topEngine.engine).Manifest.Name = "cpu-avx2"

\* C15: when the snapshot has no host cpu (the list is absent or empty),
\* cpu.Match returns score 0 with the issue "no cpu found on host system",
\* and every engine with a cpu requirement in allof gets a compatibility
\* issue and score 0
C15_NoCpuIsAnIssue ==
    (Scored /\ Len(hostCpuList) = 0) =>
        \A i \in 1..Len(loaded) : \A k \in 1..Len(loaded[i].Devices.Allof) :
            loaded[i].Devices.Allof[k].Type = "cpu" =>
                LET m == cpu_Match(loaded[i].Devices.Allof[k], probed.Cpus)
                IN  /\ m.score = 0
                    /\ m.issues = <<(<<"no cpu found on host system">>)>>
                    /\ scoredEngines[i].Score = 0
                    /\ Len(scoredEngines[i].CompatibilityIssues) > 0

\* ------------------------------------------------------------------------
\* Loading and validation: an engines directory whose entries are validated
\* (the validate command), loaded one by one (LoadManifest) and loaded as a
\* whole and scored (the select command)
\* ------------------------------------------------------------------------

MaxSetFields == 2

MaxDocs == 2

\* the fields of a requirement besides type, bus and architecture, each with
\* the value a document gives it
OptionalValue ==
    [ManufacturerId      |-> Some("GenuineIntel"),
     Flags               |-> <<"avx2">>,
     ImplementerId       |-> Some(65),
     PartNumber          |-> Some(3336),
     Features            |-> <<"asimd">>,
     VendorId            |-> Some(32902),
     DeviceId            |-> Some(39497),
     VRam                |-> Some(S100M),
     ComputeCapability   |-> Some("8.0"),
     SnapConnections     |-> <<"nvidia-driver">>,
     CompatibilityIssues |-> <<(<<"left in the file">>)>>]

\* requirements of every type, bus and architecture, the ones Device.validate
\* has no case for included
LoadDevices ==
    LET \* the documents set few of these fields, or all that the code allows for a
        \* cpu of amd64, a cpu of arm64, a pci device or a pci gpu
        FieldSets ==
            {fs \in SUBSET DOMAIN OptionalValue : Cardinality(fs) <= MaxSetFields}
                \cup {{"ManufacturerId", "Flags"},
                      {"ImplementerId", "PartNumber", "Features"},
                      {"VendorId", "DeviceId", "SnapConnections"},
                      {"VendorId", "DeviceId", "SnapConnections", "VRam", "ComputeCapability"}}
        WithFields(device, fs) ==
            [f \in DOMAIN device |-> IF f \in fs THEN OptionalValue[f] ELSE device[f]]
    IN
    {WithFields([NoDevice EXCEPT !.Type = t, !.Bus = b, !.Architecture = a], fs) :
        t \in {"cpu", "gpu", "npu", "tpu", "", "fpga"},
        b \in {"", "pci", "usb", "isa"},
        a \in {None, Some(Amd64), Some(Arm64), Some("riscv64")},
        fs \in FieldSets}

EntryNames == <<"engine-a", "engine-b", "engine-c", "engine-d">>

Document(fields) ==
    [blank |-> FALSE, malformed |-> FALSE, unknown |-> FALSE, fields |-> fields]

\* a manifest that Validate accepts in the directory name
ValidManifest(name) == [NoManifest EXCEPT !.Name = name]

\* an entry of the engines directory that is a directory with an engine.yaml
Entry(name, document) ==
    [name |-> name, isDir |-> TRUE, hasManifest |-> TRUE, document |-> document]

RECURSIVE DirectoriesOf(_)
DirectoriesOf(n) ==
    LET \* what the entry of a given name is in a directory of several entries: a
        \* plain file, a directory without an engine.yaml, or a directory with one
        SmallEntries(name) ==
            {[name |-> name, isDir |-> FALSE, hasManifest |-> FALSE,
              document |-> [Document(ZeroManifest) EXCEPT !.blank = TRUE]],
             [name |-> name, isDir |-> TRUE, hasManifest |-> FALSE,
              document |-> [Document(ZeroManifest) EXCEPT !.blank = TRUE]],
             Entry(name, Document(ValidManifest(name))),
             Entry(name, Document([ValidManifest(name) EXCEPT !.Memory = Some(S300M)])),
             Entry(name, Document([ValidManifest(name) EXCEPT !.Grade = "beta"])),
             Entry(name, [Document(ZeroManifest) EXCEPT !.blank = TRUE]),
             Entry(name, [Document(ValidManifest(name)) EXCEPT !.malformed = TRUE]),
             Entry(name, [Document(ValidManifest(name)) EXCEPT !.unknown = TRUE])}
    IN
    IF n = 0 THEN {<<>>}
    ELSE {Append(d, e) : d \in DirectoriesOf(n - 1), e \in SmallEntries(EntryNames[n])}

Directories ==
    LET \* documents with one requirement
        DeviceDocuments(name) ==
            {Document([ValidManifest(name) EXCEPT !.Devices.Allof = <<d>>]) : d \in LoadDevices}
                \cup {Document([ValidManifest(name) EXCEPT !.Devices.Anyof = <<d>>]) :
                         d \in {x \in LoadDevices : \A f \in DOMAIN OptionalValue : IsZero(x, f)}}
        \* documents that differ from a valid one in one place
        ManifestDocuments(name) ==
            {Document(ValidManifest(name)),
             Document([ValidManifest(name) EXCEPT !.Name = "other"]),
             Document([ValidManifest(name) EXCEPT !.Name = ""]),
             Document([ValidManifest(name) EXCEPT !.Description = ""]),
             Document([ValidManifest(name) EXCEPT !.Vendor = ""]),
             Document([ValidManifest(name) EXCEPT !.Grade = ""]),
             Document([ValidManifest(name) EXCEPT !.Grade = "beta"]),
             Document([ValidManifest(name) EXCEPT !.Grade = "devel"]),
             Document([ValidManifest(name) EXCEPT !.Memory = Some(S300M)]),
             Document([ValidManifest(name) EXCEPT !.Memory = Some(<<"l", "o", "t", "s">>)]),
             Document([ValidManifest(name) EXCEPT !.DiskSpace = Some(S300M)]),
             Document([ValidManifest(name) EXCEPT !.DiskSpace = Some(<<"l", "o", "t", "s">>)]),
             Document([ValidManifest(name) EXCEPT !.Configurations = [k \in {"model"} |-> "string"]]),
             Document([ValidManifest(name) EXCEPT !.Configurations = [k \in {"model"} |-> "list"]]),
             Document([ValidManifest(name) EXCEPT !.Configurations = [k \in {"model"} |-> "null"]]),
             Document([ValidManifest(name) EXCEPT !.Devices.Allof = <<DCpuAvx2, DGpuNvidia>>]),
             Document([ValidManifest(name) EXCEPT !.Devices.Allof = <<DCpuAvx2, DUsb>>]),
             [Document(ZeroManifest) EXCEPT !.blank = TRUE],
             [Document(ValidManifest(name)) EXCEPT !.malformed = TRUE],
             [Document(ValidManifest(name)) EXCEPT !.unknown = TRUE]}
    IN
    {<<Entry(EntryNames[1], doc)>> :
        doc \in DeviceDocuments(EntryNames[1]) \cup ManifestDocuments(EntryNames[1])}
        \cup UNION {DirectoriesOf(n) : n \in 0..MaxDocs}

Pending == <<"pending">>

InitLoad ==
    /\ directory \in Directories
    /\ validateErrs = [i \in 1..Len(directory) |-> Pending]
    /\ loadOne = [i \in 1..Len(directory) |-> [manifest |-> None, err |-> Pending]]
    /\ loadErr = Pending
    /\ hardwareInfo = TopHw
    /\ manifests = <<>>
    /\ snapctl = TopSnapctl
    /\ scoredEngines = <<>>
    /\ scoreErr = "nil"
    /\ topEngine = NoTop
    /\ pc = "start"
    /\ calls = 0
    /\ probed = hardwareInfo
    /\ loaded = <<>>
    /\ previous = <<>>
    /\ NoCalls

scoreVars == <<hardwareInfo, manifests, snapctl, scoredEngines, scoreErr, topEngine,
               pc, calls, probed, loaded, previous>>

\* engines.Validate(<directory>/<name of entry i>/engine.yaml)
CallValidate(i) ==
    /\ validateErrs[i] = Pending
    /\ validateErrs' = [validateErrs EXCEPT ![i] = Validate(directory[i])]
    /\ UNCHANGED <<directory, loadOne, loadErr>>
    /\ UNCHANGED scoreVars
    /\ UNCHANGED callVars

\* engines.LoadManifest(<directory>, <name of entry i>)
CallLoadManifest(i) ==
    /\ loadOne[i].err = Pending
    /\ loadOne' = [loadOne EXCEPT ![i] = LoadManifest(directory[i])]
    /\ UNCHANGED <<directory, validateErrs, loadErr>>
    /\ UNCHANGED scoreVars
    /\ UNCHANGED callVars

\* engines.LoadManifests(<directory>) as the select command calls it: the
\* command scores what was loaded and stops on an error
CallLoadManifests ==
    /\ pc = "start"
    /\ LET returns(r) ==
               /\ loadErr' = r.err
               /\ manifests' = r.manifests
               /\ loaded' = r.manifests
               /\ pc' = IF r.err = NoError THEN "loaded" ELSE "loadfailed"
       IN  returns(LoadManifests(directory))
    /\ UNCHANGED <<directory, validateErrs, loadOne>>
    /\ UNCHANGED <<hardwareInfo, snapctl, scoredEngines, scoreErr, topEngine, calls,
                   probed, previous>>
    /\ UNCHANGED callVars

NextLoad ==
    \/ \E i \in 1..Len(directory) : CallValidate(i)
    \/ \E i \in 1..Len(directory) : CallLoadManifest(i)
    \/ CallLoadManifests
    \/ CallScoreEngines
    \/ CallTopEngine

SpecLoad == InitLoad /\ [][NextLoad]_vars

\* ------------------------------------------------------------------------
\* Properties of validation and loading (checked under SpecLoad)
\* ------------------------------------------------------------------------

Validated(i) == validateErrs[i] # Pending

LoadedOne(i) == loadOne[i].err # Pending

\* C16: validation happens at load time. Validate on an engine.yaml succeeds
\* if and only if LoadManifest on the same document succeeds, and every
\* manifest that ScoreEngines was given passes the validation rules under
\* its own name.
C16_LoadValidates ==
    /\ \A i \in 1..Len(directory) :
          Validated(i) /\ LoadedOne(i)
              => ((validateErrs[i] = NoError) <=> (loadOne[i].err = NoError))
    /\ pc \in {"scored", "selected"}
          => \A j \in 1..Len(loaded) : Manifest_validate(loaded[j], loaded[j].Name) = NoError

\* the requirement of a document that holds one requirement and is valid in
\* everything else
OneDevice(entry) ==
    /\ entry.isDir /\ entry.hasManifest
    /\ ~entry.document.blank /\ ~entry.document.malformed /\ ~entry.document.unknown
    /\ entry.document.fields
           = [ValidManifest(entry.name) EXCEPT !.Devices = entry.document.fields.Devices]
    /\ Len(entry.document.fields.Devices.Allof)
           + Len(entry.document.fields.Devices.Anyof) = 1

TheDevice(entry) ==
    IF Len(entry.document.fields.Devices.Allof) > 0
    THEN entry.document.fields.Devices.Allof[1]
    ELSE entry.document.fields.Devices.Anyof[1]

SetFields(device) == {f \in DOMAIN device : ~IsZero(device, f)}

\* cpu/amd64, cpu/arm64, pci gpu, pci npu and typeless pci; an unset bus is pci
HasLegalSet(device) ==
    \/ device.Type = "cpu" /\ device.Architecture \in {Some(Amd64), Some(Arm64)}
    \/ device.Type \in {"gpu", "npu", ""} /\ device.Bus \in {"", "pci"}

LegalFields(device) ==
    IF device.Type = "cpu"
    THEN IF device.Architecture = Some(Amd64)
         THEN {"Type", "Architecture", "ManufacturerId", "Flags"}
         ELSE {"Type", "Architecture", "ImplementerId", "PartNumber", "Features"}
    ELSE IF device.Type = "gpu"
    THEN {"Type", "Bus", "VendorId", "DeviceId", "SnapConnections", "VRam",
          "ComputeCapability"}
    ELSE {"Type", "Bus", "VendorId", "DeviceId", "SnapConnections"}

\* C17: a requirement of cpu/amd64, cpu/arm64, pci gpu, pci npu or typeless
\* pci is accepted by validation if and only if every field it sets is in
\* the legal set of its (type, bus) pair.
C17_LegalFieldSets ==
    \A i \in 1..Len(directory) :
        Validated(i) /\ OneDevice(directory[i]) /\ HasLegalSet(TheDevice(directory[i]))
            => ((validateErrs[i] = NoError)
                    <=> SetFields(TheDevice(directory[i]))
                            \subseteq LegalFields(TheDevice(directory[i])))

\* a pci gpu with every field of its legal set was validated and accepted
C17_Witness ==
    /\ Len(directory) = 1
    /\ Validated(1)
    /\ OneDevice(directory[1])
    /\ TheDevice(directory[1]).Type = "gpu"
    /\ SetFields(TheDevice(directory[1]))
           = {"Type", "Bus", "VendorId", "DeviceId", "SnapConnections", "VRam",
              "ComputeCapability"}
    /\ validateErrs[1] = NoError

\* a requirement that sets nothing but type, bus pci and, for a cpu, a known
\* architecture
Plain(device) ==
    IF device.Type = "cpu"
    THEN device.Architecture \in {Some(Amd64), Some(Arm64)}
             /\ SetFields(device) \subseteq {"Type", "Architecture"}
    ELSE device.Bus \in {"", "pci"} /\ SetFields(device) \subseteq {"Type", "Bus"}

\* C18: validation accepts exactly the types cpu, gpu, npu, tpu and unset. A
\* requirement of another type is rejected, and a requirement of one of
\* these types that sets nothing but type, bus pci and (for a cpu) a known
\* architecture is accepted.
C18_DeviceTypes ==
    \A i \in 1..Len(directory) :
        (Validated(i) /\ OneDevice(directory[i]))
            => IF TheDevice(directory[i]).Type \in {"cpu", "gpu", "npu", "tpu", ""}
               THEN Plain(TheDevice(directory[i])) => (validateErrs[i] = NoError)
               ELSE validateErrs[i] # NoError

\* C19: for a requirement of type gpu, npu or unset that sets nothing but
\* type and bus, validation accepts the bus values pci, usb and unset and
\* rejects every other bus value.
C19_BusValues ==
    \A i \in 1..Len(directory) :
        (/\ Validated(i) /\ OneDevice(directory[i])
         /\ TheDevice(directory[i]).Type \in {"gpu", "npu", ""}
         /\ SetFields(TheDevice(directory[i])) \subseteq {"Type", "Bus"})
            => ((validateErrs[i] = NoError)
                    <=> TheDevice(directory[i]).Bus \in {"pci", "usb", ""})

\* ------------------------------------------------------------------------
\* The usb bus at matching (checked under SpecMatch)
\* ------------------------------------------------------------------------

IsUsb(device) == device.Type # "cpu" /\ device.Bus = "usb"

UsbIn(devices) == \E k \in 1..Len(devices) : IsUsb(devices[k])

UsbIssue == "usb device matching not implemented"

\* C20: an engine with a non-cpu requirement of bus usb, in allof or in
\* anyof, is scored 0 and has the issue "usb device matching not
\* implemented", whatever the host and its other requirements are.
C20_UsbFailsMatching ==
    pc \in {"scored", "selected"}
        => \A j \in 1..Len(scoredEngines) :
               (UsbIn(scoredEngines[j].Manifest.Devices.Allof)
                    \/ UsbIn(scoredEngines[j].Manifest.Devices.Anyof))
                   => /\ scoredEngines[j].Score = 0
                      /\ ~scoredEngines[j].Compatible
                      /\ Contains(scoredEngines[j].CompatibilityIssues, UsbIssue)

\* an engine was scored whose allof holds a usb requirement next to a cpu
\* requirement that the host satisfies, and whose memory requirement is met
C20_Witness ==
    /\ pc = "scored"
    /\ \E j \in 1..Len(scoredEngines) :
           /\ scoredEngines[j].Manifest.Devices.Allof
                  = <<DCpuIntel,
                      [NoDevice EXCEPT !.Bus = "usb",
                                       !.CompatibilityIssues = <<(<<UsbIssue>>)>>]>>
           /\ IsSet(scoredEngines[j].Manifest.Memory)
           /\ scoredEngines[j].CompatibilityIssues = <<UsbIssue>>
           /\ scoredEngines[j].Score = 0

\* ------------------------------------------------------------------------
\* The matchers' helpers called on their own: pci.Match on one requirement
\* and one list of host devices, utils.StringToBytes on one string
\* ------------------------------------------------------------------------

\* the plugs a requirement can list, and what snapctl answers for them
\* the longest size string passed to StringToBytes on its own
MaxSize == 4

InitUnits ==
    LET UnitSnapctlStates ==
            [{"nvidia-driver", "intel-npu"} -> {"connected", "disconnected"}]
                \cup {[c \in {"nvidia-driver", "intel-npu"} |->
                          IF c = e THEN "error" ELSE "connected"] : e \in {"nvidia-driver"}}
        \* pci requirements: 1G is beyond the word of the model, as 17179869184G is
        \* beyond 64 bits
        UnitRequirements ==
            {[NoDevice EXCEPT !.Type = t, !.VendorId = v, !.VRam = m,
                              !.ComputeCapability = cc, !.SnapConnections = sc] :
                t \in {"", "gpu", "npu", "tpu"},
                v \in {None, Some(4318), Some(32902)},
                m \in {None, Some(S100M), Some(<<"1", "G">>)},
                cc \in {None, Some("8.0")},
                sc \in {<<>>, <<"nvidia-driver">>, <<"intel-npu", "nvidia-driver">>}}
        \* host lists: one device, the same device on bus 0 and on bus 1, or two
        \* display controllers that differ in their properties
        UnitPciLists ==
            LET vram200 == DGpu.AdditionalProperties
                vram50  == [k \in {"vram"} |-> <<"5", "2", "4", "2", "8", "8", "0", "0">>]
                junk    == [k \in {"vram"} |-> <<"x">>]
                cc      == [k \in {"compute-capability"} |-> <<"8", ".", "0">>]
                both    == [k \in {"vram", "compute-capability"} |->
                               IF k = "vram" THEN vram200["vram"] ELSE cc[k]]
                display == {<<768, q>> : q \in {NoProperties, vram200, vram50, junk, cc, both}}
                kinds   == {<<c, NoProperties>> :
                               c \in {1, 2, 512, 768, 1023, 1024, 2816, 2880, 4608, 4863, 4864}}
                               \cup display \cup {<<4608, vram200>>}
                dev(kind, bus) ==
                    [Score |-> 0, Slot |-> IF bus = 0 THEN "00:02.0" ELSE "01:00.0",
                     BusNumber |-> bus, DeviceClass |-> kind[1], VendorId |-> 4318,
                     DeviceId |-> 8708, AdditionalProperties |-> kind[2]]
            IN  {<<>>}
                    \cup {<<dev(k, b)>> : k \in kinds, b \in {0, 1}}
                    \cup {<<dev(k, b), dev(k, 1 - b)>> : k \in kinds, b \in {0, 1}}
                    \cup {<<dev(k, 0), dev(l, 1)>> : k \in display, l \in display}
    IN
    /\ \/ /\ pciCall \in {[manifestDevice |-> d, hostPciDevices |-> h, scored |-> <<>>,
                            match |-> <<>>] :
                              d \in UnitRequirements, h \in UnitPciLists}
          /\ sizeCall = [sizeString |-> <<>>, result |-> <<>>]
          /\ snapctl \in UnitSnapctlStates
          /\ pc = "pci"
       \/ /\ pciCall = [manifestDevice |-> <<>>, hostPciDevices |-> <<>>,
                        scored |-> <<>>, match |-> <<>>]
          /\ sizeCall \in {[sizeString |-> size, result |-> <<>>] :
                              size \in ListsUpTo({"0", "1", "2", "5", "9", "a", "K", "M", "G", "-"},
                                                MaxSize)}
          /\ snapctl = [plug \in {"nvidia-driver", "intel-npu"} |-> "connected"]
          /\ pc = "size"
    /\ hardwareInfo = TopHw
    /\ manifests = <<>>
    /\ scoredEngines = <<>>
    /\ scoreErr = "nil"
    /\ topEngine = NoTop
    /\ calls = 0
    /\ probed = hardwareInfo
    /\ loaded = <<>>
    /\ previous = <<>>
    /\ store = NoStore
    /\ useCall = NoUse
    /\ directory = <<>>
    /\ validateErrs = <<>>
    /\ loadOne = <<>>
    /\ loadErr = <<>>

\* pci.Match(manifestDevice, hostPciDevices); scored is what scorePciDevices
\* returns inside the call
CallPciMatch ==
    /\ pc = "pci"
    /\ pciCall' =
           [pciCall EXCEPT
               !.scored = scorePciDevices(pciCall.manifestDevice,
                              filterPciDevices(pciCall.hostPciDevices,
                                               pciCall.manifestDevice.VendorId,
                                               pciCall.manifestDevice.DeviceId),
                              snapctl),
               !.match = pci_Match(pciCall.manifestDevice, pciCall.hostPciDevices, snapctl)]
    /\ pc' = "matched"
    /\ UNCHANGED <<hardwareInfo, manifests, snapctl, scoredEngines, scoreErr, topEngine,
                   calls, probed, loaded, previous>>
    /\ UNCHANGED loadVars
    /\ UNCHANGED <<sizeCall, store, useCall>>

\* utils.StringToBytes(sizeString)
CallStringToBytes ==
    /\ pc = "size"
    /\ sizeCall' = [sizeCall EXCEPT !.result = StringToBytes(sizeCall.sizeString)]
    /\ pc' = "parsed"
    /\ UNCHANGED <<hardwareInfo, manifests, snapctl, scoredEngines, scoreErr, topEngine,
                   calls, probed, loaded, previous>>
    /\ UNCHANGED loadVars
    /\ UNCHANGED <<pciCall, store, useCall>>

NextUnits == CallPciMatch \/ CallStringToBytes

SpecUnits == InitUnits /\ [][NextUnits]_vars

\* ------------------------------------------------------------------------
\* Properties of pci.Match (checked under SpecUnits)
\* ------------------------------------------------------------------------

Matched == pc = "matched"

\* the devices that passed the filter, with their scores
ScoredDevices == pciCall.scored.devices

\* the issues of the device in a slot, without the prefix "pci <slot>: "
IssuesOf(slot) ==
    LET ofSlot(issue) == Len(issue) = 3 /\ issue[2] = slot
        found == SelectSeq(pciCall.scored.issues, ofSlot)
    IN  [i \in 1..Len(found) |-> found[i][3]]

\* the mapping of the types to the device classes: gpu is 0x0001 or 0x03xx,
\* npu and tpu are 0x12xx or 0x0B40
ClassAccepts(type, class) ==
    \/ type = "gpu" /\ (class = 1 \/ (768 <= class /\ class <= 1023))
    \/ type \in {"npu", "tpu"} /\ ((4608 <= class /\ class <= 4863) \/ class = 2880)

TypePasses(device) ==
    pciCall.manifestDevice.Type = ""
        \/ ClassAccepts(pciCall.manifestDevice.Type, device.DeviceClass)

\* a size string without its suffix, and the power of two of the suffix
SizeDigits(size) ==
    IF HasSuffix(size, "G") \/ HasSuffix(size, "M")
    THEN SubSeq(size, 1, Len(size) - 1) ELSE size

SizeShift(size) ==
    IF HasSuffix(size, "G") THEN 30 ELSE IF HasSuffix(size, "M") THEN 20 ELSE 0

AllDigits(s) == Len(s) > 0 /\ \A i \in 1..Len(s) : IsDigit(s[i])

RECURSIVE Decimal(_)
Decimal(s) == IF Len(s) = 0 THEN 0 ELSE 10 * Decimal(SubSeq(s, 1, Len(s) - 1)) + DigitVal(s[Len(s)])

\* bytes >= digits * 2^shift of the size, without computing the product
AtLeast(bytes, size) == bytes \div Pow2(SizeShift(size)) >= Decimal(SizeDigits(size))

\* the host device lists its vram, and the amount is at least the requirement
EnoughVram(device) ==
    /\ "vram" \in DOMAIN device.AdditionalProperties
    /\ AllDigits(device.AdditionalProperties["vram"])
    /\ AtLeast(Decimal(device.AdditionalProperties["vram"]), Val(pciCall.manifestDevice.VRam))

VramIssues ==
    {"unable to detect vRAM", "not enough vRAM: %d", "error parsing vRAM: %v"}

\* C21: with a VRAM minimum in the requirement, a filtered device of the
\* right type gets no vram issue if and only if it lists a vram amount of at
\* least the required bytes; without a vram entry it scores 0 with the one
\* issue "unable to detect vRAM", with a smaller amount it scores 0 with the
\* one issue "not enough vRAM: <n>".
C21_VramCheck ==
    (Matched /\ IsSet(pciCall.manifestDevice.VRam))
        => \A k \in 1..Len(ScoredDevices) :
               TypePasses(ScoredDevices[k])
                   => IF EnoughVram(ScoredDevices[k])
                      THEN \A i \in 1..Len(IssuesOf(ScoredDevices[k].Slot)) :
                               IssuesOf(ScoredDevices[k].Slot)[i][1] \notin VramIssues
                      ELSE /\ ScoredDevices[k].Score = 0
                           /\ Len(IssuesOf(ScoredDevices[k].Slot)) = 1
                           /\ IssuesOf(ScoredDevices[k].Slot)[1]
                                  = IF "vram" \notin DOMAIN ScoredDevices[k].AdditionalProperties
                                    THEN <<"unable to detect vRAM">>
                                    ELSE IF AllDigits(ScoredDevices[k].AdditionalProperties["vram"])
                                    THEN <<"not enough vRAM: %d",
                                           Decimal(ScoredDevices[k].AdditionalProperties["vram"])>>
                                    ELSE IssuesOf(ScoredDevices[k].Slot)[1]

\* C22: with a compute-capability in the requirement, a filtered device
\* whose properties have no "compute-capability" entry scores 0 and has an
\* issue.
C22_ComputeCapabilityChecked ==
    (Matched /\ IsSet(pciCall.manifestDevice.ComputeCapability))
        => \A k \in 1..Len(ScoredDevices) :
               "compute-capability" \notin DOMAIN ScoredDevices[k].AdditionalProperties
                   => /\ ScoredDevices[k].Score = 0
                      /\ Len(IssuesOf(ScoredDevices[k].Slot)) > 0

\* what a device earns when every check passes: the type, the bus and the
\* vram weight
Earned(device) ==
    (IF pciCall.manifestDevice.Type # "" THEN 10 ELSE 0)
        + (IF device.BusNumber > 0 THEN 50 ELSE 0)
        + (IF IsSet(pciCall.manifestDevice.VRam) THEN 10 ELSE 0)

NoIssues(device) == Len(IssuesOf(device.Slot)) = 0

\* the same device on bus 0 and on another bus
Twins(integrated, discrete) ==
    /\ integrated.BusNumber = 0
    /\ discrete.BusNumber > 0
    /\ integrated.DeviceClass = discrete.DeviceClass
    /\ integrated.VendorId = discrete.VendorId
    /\ integrated.DeviceId = discrete.DeviceId
    /\ integrated.AdditionalProperties = discrete.AdditionalProperties

\* C23: of two host devices that differ in the bus number only (0 and more
\* than 0) and that both pass every check, the discrete one scores exactly
\* 50 more than the integrated one, and pci.Match returns the discrete
\* device's score.
C23_DiscreteScoresFiftyMore ==
    Matched
        => \A i, j \in 1..Len(ScoredDevices) :
               (/\ Twins(ScoredDevices[i], ScoredDevices[j])
                /\ NoIssues(ScoredDevices[i])
                /\ NoIssues(ScoredDevices[j]))
                   => /\ ScoredDevices[j].Score = ScoredDevices[i].Score + 50
                      /\ pciCall.match.score = ScoredDevices[j].Score

\* a gpu requirement with a vram minimum and a plug was matched against the
\* same display controller on bus 0 and on bus 1: 20 and 70
C23_Witness ==
    /\ Matched
    /\ pciCall.manifestDevice.Type = "gpu"
    /\ pciCall.manifestDevice.VRam = Some(S100M)
    /\ pciCall.manifestDevice.SnapConnections = <<"nvidia-driver">>
    /\ Len(ScoredDevices) = 2
    /\ Twins(ScoredDevices[1], ScoredDevices[2])
    /\ ScoredDevices[1].Score = 20
    /\ ScoredDevices[2].Score = 70
    /\ pciCall.match = [score |-> 70, issues |-> <<>>,
                        hostPciDevices |-> pciCall.hostPciDevices]

\* C24: a requirement of type gpu accepts the classes 0x0001 and 0x0300 to
\* 0x03FF, one of type npu or tpu the classes 0x1200 to 0x12FF and 0x0B40. A
\* device of an accepted class has no class issue and, when it has no issue
\* at all, a score that includes the 10 of the type; a device of another
\* class scores 0 and has the class issue as its only issue.
C24_TypeToClass ==
    (Matched /\ pciCall.manifestDevice.Type \in {"gpu", "npu", "tpu"})
        => \A k \in 1..Len(ScoredDevices) :
               IF ClassAccepts(pciCall.manifestDevice.Type, ScoredDevices[k].DeviceClass)
               THEN /\ \A i \in 1..Len(IssuesOf(ScoredDevices[k].Slot)) :
                           IssuesOf(ScoredDevices[k].Slot)[i][1]
                               # "device class 0x%04x not of required type %s"
                    /\ NoIssues(ScoredDevices[k])
                           => ScoredDevices[k].Score = Earned(ScoredDevices[k])
               ELSE /\ ScoredDevices[k].Score = 0
                    /\ IssuesOf(ScoredDevices[k].Slot)
                           = <<(<<"device class 0x%04x not of required type %s",
                                  ScoredDevices[k].DeviceClass,
                                  pciCall.manifestDevice.Type>>)>>

\* a co-processor (0x0B40) on bus 1 was accepted for a tpu requirement, and
\* the same call rejected nothing else
C24_Witness ==
    /\ Matched
    /\ pciCall.manifestDevice.Type = "tpu"
    /\ Len(ScoredDevices) = 1
    /\ ScoredDevices[1].DeviceClass = 2880
    /\ ScoredDevices[1].Score = 60
    /\ pciCall.match.score = 60

\* the device passed the checks that come before the snap connections
EarlierPassed(device) ==
    /\ TypePasses(device)
    /\ IsSet(pciCall.manifestDevice.VRam) => checkVram(pciCall.manifestDevice, device) = <<>>

\* the position of the first listed connection that is not connected, or 0
FirstFailing(connections) ==
    IF \E i \in 1..Len(connections) : snapctl[connections[i]] # "connected"
    THEN CHOOSE i \in 1..Len(connections) :
             /\ snapctl[connections[i]] # "connected"
             /\ \A j \in 1..(i - 1) : snapctl[connections[j]] = "connected"
    ELSE 0

ConnectionIssue(connection) ==
    IF snapctl[connection] = "error"
    THEN <<"error checking snap connection %q: %v", connection, "snapctl">>
    ELSE <<"%q is not connected", connection>>

\* C25: for a device that passed the type and property checks, if a listed
\* snap connection is not reported connected the score is 0, whatever the
\* device had earned, and its one issue names the first such connection; if
\* all are connected the device keeps what it earned and has no issue.
C25_SnapConnections ==
    Matched
        => \A k \in 1..Len(ScoredDevices) :
               EarlierPassed(ScoredDevices[k])
                   => IF FirstFailing(pciCall.manifestDevice.SnapConnections) > 0
                      THEN /\ ScoredDevices[k].Score = 0
                           /\ IssuesOf(ScoredDevices[k].Slot)
                                  = <<ConnectionIssue(pciCall.manifestDevice.SnapConnections[
                                        FirstFailing(pciCall.manifestDevice.SnapConnections)])>>
                      ELSE /\ ScoredDevices[k].Score = Earned(ScoredDevices[k])
                           /\ NoIssues(ScoredDevices[k])

\* a discrete display controller with enough vram lost the 70 it had earned
\* because the second listed plug is not connected
C25_Witness ==
    /\ Matched
    /\ pciCall.manifestDevice.Type = "gpu"
    /\ pciCall.manifestDevice.VRam = Some(S100M)
    /\ pciCall.manifestDevice.SnapConnections = <<"intel-npu", "nvidia-driver">>
    /\ snapctl["intel-npu"] = "connected"
    /\ snapctl["nvidia-driver"] = "disconnected"
    /\ Len(ScoredDevices) = 1
    /\ ScoredDevices[1].BusNumber = 1
    /\ EarlierPassed(ScoredDevices[1])
    /\ ScoredDevices[1].Score = 0
    /\ IssuesOf(ScoredDevices[1].Slot) = <<(<<"%q is not connected", "nvidia-driver">>)>>

\* C29: pci.Match returns score 0 if and only if it returns issues.
C29_ZeroIffIssues ==
    Matched => ((pciCall.match.score = 0) <=> (Len(pciCall.match.issues) > 0))

\* ------------------------------------------------------------------------
\* Properties of utils.StringToBytes (checked under SpecUnits)
\* ------------------------------------------------------------------------

Parsed == pc = "parsed"

\* decimal digits, optionally followed by M or G
WellFormedSize(size) == AllDigits(SizeDigits(size))

\* value = digits * 2^shift of the size, without computing the product
ExactBytes(value, size) ==
    /\ value % Pow2(SizeShift(size)) = 0
    /\ value \div Pow2(SizeShift(size)) = Decimal(SizeDigits(size))

\* C26: for a size string of decimal digits optionally followed by M or G
\* StringToBytes returns, without error, exactly the digits times 1, 2^20 or
\* 2^30, with no wrap-around; for every other string it returns an error.
C26_ExactByteSizes ==
    Parsed
        => IF WellFormedSize(sizeCall.sizeString)
           THEN /\ sizeCall.result.err = "nil"
                /\ ExactBytes(sizeCall.result.value, sizeCall.sizeString)
           ELSE sizeCall.result.err # "nil"

\* ------------------------------------------------------------------------
\* Engines without requirements (checked under SpecMatch)
\* ------------------------------------------------------------------------

\* no memory, no disk-space, empty allof and anyof
ZeroRequirements(manifest) ==
    /\ manifest.Memory = None
    /\ manifest.DiskSpace = None
    /\ Len(manifest.Devices.Allof) = 0
    /\ Len(manifest.Devices.Anyof) = 0

\* C27: a manifest that declares zero requirements is scored 0, not
\* compatible and without issues on every snapshot, and TopEngine never
\* returns it: alone in the directory, even when stable, the result is
\* ErrorNoCompatibleEngine.
C27_ZeroRequirementsNeverSelected ==
    /\ \A i \in 1..Len(scoredEngines) :
           ZeroRequirements(scoredEngines[i].Manifest)
               => /\ scoredEngines[i].Score = 0
                  /\ scoredEngines[i].Compatible = FALSE
                  /\ Len(scoredEngines[i].CompatibilityIssues) = 0
    /\ pc = "selected"
           => /\ IsSet(topEngine.engine) => ~ZeroRequirements(Val(topEngine.engine).Manifest)
              /\ (\A i \in 1..Len(scoredEngines) : ZeroRequirements(scoredEngines[i].Manifest))
                     => topEngine = [engine |-> None, err |-> ErrorNoCompatibleEngine]

\* a stable engine without requirements was the only one scored, on a host
\* with cpus, memory, disk and pci devices, and TopEngine refused it
C27_Witness ==
    /\ pc = "selected"
    /\ Len(scoredEngines) = 1
    /\ ZeroRequirements(scoredEngines[1].Manifest)
    /\ scoredEngines[1].Manifest.Grade = "stable"
    /\ scoredEngines[1].Score = 0
    /\ hardwareInfo.Cpus = Some(<<CpuIntel, CpuAmd>>)
    /\ hardwareInfo.Memory.TotalRam = 200000000
    /\ SnapStoragePath \in DOMAIN hardwareInfo.Disk
    /\ Len(hardwareInfo.PciDevices) = 2
    /\ topEngine = [engine |-> None, err |-> ErrorNoCompatibleEngine]

\* ------------------------------------------------------------------------
\* Runs of use-engine: one command, with a name or with --auto, on a
\* directory of engines, a persisted state and a snapshot; the command meets
\* one fault of the environment or none
\* ------------------------------------------------------------------------

Faults ==
    {[op |-> o, key |-> "", done |-> {}] :
        o \in {"none", "components", "decline", "install", "get-active",
               "machine-info", "unset-engine", "set-active"}}
        \cup UNION {{[op |-> o, key |-> k, done |-> d] :
                        o \in {"unset-user", "set-document"},
                        d \in SUBSET ({"engine", "model"} \ {k})} : k \in {"engine", "model"}}

InitUse ==
    LET \* what the directory of an engine can hold: an engine that scores 1
        \* or 2, a devel engine, an engine under the name of the other
        \* directory, an empty file, a file that is not yaml
        documents(name, other) ==
            {Document([ValidManifest(name) EXCEPT
                          !.Memory = Some(S1),
                          !.Configurations = [k \in {"engine"} |-> name]]),
             Document([ValidManifest(name) EXCEPT
                          !.Memory = Some(S1), !.DiskSpace = Some(S1),
                          !.Configurations = [k \in {"engine", "model"} |-> name]]),
             Document([ValidManifest(name) EXCEPT !.Grade = "devel", !.Memory = Some(S1)]),
             Document([ValidManifest(other) EXCEPT
                          !.Memory = Some(S1),
                          !.Configurations = [k \in {"model"} |-> other]]),
             [Document(ZeroManifest) EXCEPT !.blank = TRUE],
             [Document(ZeroManifest) EXCEPT !.malformed = TRUE]}
        entries(name, other) == {Entry(name, d) : d \in documents(name, other)}
        directories ==
            {<<>>}
                \cup {<<a>> : a \in entries("engine-a", "engine-b")}
                \cup {<<a, b>> : a \in entries("engine-a", "engine-b"),
                                 b \in entries("engine-b", "engine-a")}
        stores ==
            {NoStore,
             [activeEngine |-> "engine-a", engine |-> [k \in {"engine"} |-> "engine-a"],
              user |-> [k \in {} |-> ""]],
             [activeEngine |-> "engine-a", engine |-> [k \in {"engine"} |-> "engine-a"],
              user |-> [k \in {"engine"} |-> "mine"]],
             [activeEngine |-> "engine-b", engine |-> [k \in {"engine", "model"} |-> "engine-b"],
              user |-> [k \in {"model", "port"} |-> "mine"]]}
    IN
    /\ directory \in directories
    /\ store \in stores
    /\ useCall \in {[auto |-> TRUE, engineName |-> "", before |-> store, err |-> Pending]}
                       \cup {[auto |-> FALSE, engineName |-> n, before |-> store,
                              err |-> Pending] : n \in {"engine-a", "engine-b", "engine-x"}}
    /\ hardwareInfo \in {TopHw, [TopHw EXCEPT !.Memory.TotalRam = 0]}
    /\ snapctl = TopSnapctl
    /\ manifests = <<>>
    /\ scoredEngines = <<>>
    /\ scoreErr = "nil"
    /\ topEngine = NoTop
    /\ pc = "use"
    /\ calls = 0
    /\ probed = hardwareInfo
    /\ loaded = <<>>
    /\ previous = <<>>
    /\ validateErrs = <<>>
    /\ loadOne = <<>>
    /\ loadErr = <<>>
    /\ pciCall = [manifestDevice |-> <<>>, hostPciDevices |-> <<>>,
                  scored |-> <<>>, match |-> <<>>]
    /\ sizeCall = [sizeString |-> <<>>, result |-> <<>>]

\* use-engine --auto: useCommand.run calls autoSelectEngine
CallAutoSelect ==
    /\ pc = "use"
    /\ useCall.auto
    /\ \E fault \in Faults :
           LET returns(r) ==
                   /\ store' = r.store
                   /\ scoredEngines' = r.scoredEngines
                   /\ topEngine' = r.selected
                   /\ useCall' = [useCall EXCEPT
                          !.engineName = IF IsSet(r.selected.engine)
                                         THEN Val(r.selected.engine).Manifest.Name ELSE "",
                          !.before = store,
                          !.err = r.err]
           IN  returns(autoSelectEngine(store, directory, hardwareInfo, snapctl, fault))
    /\ pc' = "used"
    /\ UNCHANGED <<hardwareInfo, manifests, snapctl, scoreErr, calls, probed, loaded,
                   previous>>
    /\ UNCHANGED loadVars
    /\ UNCHANGED <<pciCall, sizeCall>>

\* use-engine <name>: useCommand.run calls switchEngine(args[0])
CallSwitchEngine ==
    /\ pc = "use"
    /\ ~useCall.auto
    /\ \E fault \in Faults :
           LET returns(r) ==
                   /\ store' = r.store
                   /\ useCall' = [useCall EXCEPT !.before = store, !.err = r.err]
           IN  returns(switchEngine(store, directory, useCall.engineName, fault))
    /\ pc' = "used"
    /\ UNCHANGED <<hardwareInfo, manifests, snapctl, scoredEngines, scoreErr, topEngine,
                   calls, probed, loaded, previous>>
    /\ UNCHANGED loadVars
    /\ UNCHANGED <<pciCall, sizeCall>>

NextUse == CallAutoSelect \/ CallSwitchEngine

SpecUse == InitUse /\ [][NextUse]_vars

\* ------------------------------------------------------------------------
\* Properties of use-engine (checked under SpecUse)
\* ------------------------------------------------------------------------

Used == pc = "used"

\* C28: use-engine --auto changes the persisted active engine only to the
\* name that TopEngine returned over the freshly scored manifests; when
\* TopEngine returns ErrorNoCompatibleEngine, or scoring fails, the command
\* returns an error and the persisted active engine and engine
\* configurations are as before the command.
C28_AutoPersistsTopEngine ==
    (Used /\ useCall.auto)
        => /\ store.activeEngine # useCall.before.activeEngine
                  => /\ IsSet(topEngine.engine)
                     /\ store.activeEngine = Val(topEngine.engine).Manifest.Name
           /\ ~IsSet(topEngine.engine)
                  => /\ useCall.err # NoError
                     /\ store.activeEngine = useCall.before.activeEngine
                     /\ store.engine = useCall.before.engine

\* C30: when switchEngine(name) returns an error the persisted active
\* engine and the engine and user configuration layers are as before the
\* call, and when name is the active engine already the call changes no
\* persisted state.
C30_SwitchAllOrNothing ==
    (Used /\ ~useCall.auto)
        => /\ useCall.err # NoError => store = useCall.before
           /\ useCall.engineName = useCall.before.activeEngine => store = useCall.before

====
